---- MODULE Spec2Model ----
(***************************************************************************)
(* Model of the pixel-select image import: the resampling engine           *)
(* (resample and its four kernels), the preview computation of the import  *)
(* modal (background fill, resample, black lift, grid extraction) and the  *)
(* modal's crop handlers.                                                  *)
(*                                                                         *)
(* Arithmetic.  The code computes in IEEE doubles (premult in a            *)
(* Float32Array).  The model computes the same expressions exactly, as     *)
(* integer numerators over a positive denominator, and rounds where the    *)
(* code rounds (Math.round, the Uint8ClampedArray store).  The palette is  *)
(* chosen so that every premultiplied channel c*a/255 is an integer, which *)
(* is also what the Float32Array holds for those pixels.  sinc is          *)
(* irrational: the Lanczos weights are tabulated in thousandths, with      *)
(* sinc(k) = 0 exactly at the non-zero integers k.  Against the doubles of *)
(* the code the stored bytes can therefore differ by one where a value     *)
(* lies on a rounding tie, and in the RGB of a Lanczos pixel whose stored  *)
(* alpha is 0 (the double sinc(k) is about 1e-17, not 0).  box is exact.   *)
(*                                                                         *)
(* Two specifications.  Spec is one run of the preview callback, resample  *)
(* cell by cell, from any source crop, target size, algorithm and          *)
(* background; revision selects the bilinear kernel of the imported        *)
(* imageProcessing module or of the inline resample.  SpecModal is the     *)
(* modal's handlers, effects and animation frames, with the preview        *)
(* callback as one step; crop coordinates are kept in half pixels.         *)
(***************************************************************************)
EXTENDS Integers, Sequences, FiniteSets, TLC

(***************************************************************************)
(* Bounds of the model.                                                    *)
(***************************************************************************)
\* largest side of a uniform source buffer
MaxSrc == 4
\* largest target width / height (matrixWidth, matrixHeight)
MaxDst == 3
\* largest pointer coordinate of a mouse event, in half source pixels
MaxPointer == 2
\* largest value the crop-size input reports
MaxRawSize == 3
\* largest number of requestAnimationFrame calls in one run
MaxFrames == 3

(***************************************************************************)
(* Number helpers.                                                         *)
(***************************************************************************)
MathMax(a, b) == IF a >= b THEN a ELSE b

MathMin(a, b) == IF a <= b THEN a ELSE b

\* Math.floor(n / d), d > 0
MathFloor(n, d) == n \div d

\* Math.ceil(n / d), d > 0
MathCeil(n, d) == -((-n) \div d)

\* Math.round(n / d), d > 0: the nearest integer, a tie goes up
MathRound(n, d) == (2 * n + d) \div (2 * d)

clamp(val, min, max) == MathMax(min, MathMin(max, val))

\* <<q, r>> with a * b = q * c + r and 0 <= r < c, for 0 <= a < c and b >= 0,
\* by doubling, so that no intermediate value exceeds 3 * c
RECURSIVE MulDivMod(_, _, _)
MulDivMod(a, b, c) ==
  IF b = 0 THEN <<0, 0>>
  ELSE CHOOSE qr \in {<<2 * h[1] + ((2 * h[2] + (b % 2) * a) \div c),
                        (2 * h[2] + (b % 2) * a) % c>> :
                      h \in {MulDivMod(a, b \div 2, c)}} : TRUE

\* Mutant of ToUint8Clamp: dst is a plain number array, the value is rounded
\* but not clamped.
ToUint8NoClamp(n, d) == MathRound(n, d)

\* The conversion of the number n / d (d > 0) stored into a Uint8ClampedArray:
\* clamped to 0..255 and rounded to the nearest integer, a tie to the even one.
ToUint8Clamp(n, d) ==
  LET f == n \div d
      r == n - f * d
      v == IF 2 * r < d THEN f
           ELSE IF 2 * r > d THEN f + 1
           ELSE IF f % 2 = 0 THEN f ELSE f + 1
  IN  IF n <= 0 THEN 0 ELSE IF f >= 255 THEN 255 ELSE v

RECURSIVE SumTo(_, _)
SumTo(f, n) == IF n = 0 THEN 0 ELSE f[n] + SumTo(f, n - 1)

\* the sum of a sequence of integers
SumSeq(s) == CHOOSE v \in {SumTo(t, Len(t)) : t \in {s}} : TRUE

(***************************************************************************)
(* Pixels and buffers.  A pixel is <<r, g, b, a>>; a buffer is the record  *)
(* [w, h, data] with data the pixels in row-major order, so the pixel at   *)
(* flat byte index idx of the code is data[idx \div 4 + 1].                *)
(***************************************************************************)
Algorithms == {"box", "bilinear", "bicubic", "lanczos"}

Buffer(w, h, data) == [w |-> w, h |-> h, data |-> data]

\* premult of resample: colour scaled by alpha / 255, alpha kept
Premultiply(data) ==
  [p \in 1..Len(data) |->
     <<(data[p][1] * data[p][4]) \div 255,
       (data[p][2] * data[p][4]) \div 255,
       (data[p][3] * data[p][4]) \div 255,
       data[p][4]>>]

\* premult[idx .. idx + 3]; an index outside the array reads undefined
Undefined == "undefined"

ReadAt(premult, idx) ==
  IF idx >= 0 /\ idx < 4 * Len(premult) THEN premult[idx \div 4 + 1] ELSE Undefined

\* a source read of a kernel: the coordinates asked for, the flat index read
\* and the weight (an integer numerator) the pixel enters the sum with
Tap(x, y, idx, w) == [x |-> x, y |-> y, idx |-> idx, w |-> w]

\* readPixel: the flat index of the pixel at (x, y), clamped to the edges
readPixelIdx(x, y, sw, sh) ==
  LET xi == clamp(x, 0, sw - 1)
      yi == clamp(y, 0, sh - 1)
  IN  (yi * sw + xi) * 4

\* a kernel sample: the four channels n[c] / d with d > 0, or NaN
Sample(n, d) == [nan |-> FALSE, n |-> n, d |-> d]

NaNSample == [nan |-> TRUE, n |-> <<0, 0, 0, 0>>, d |-> 1]

\* sum over the taps of weight * premultiplied channel c
WeightedSum(premult, taps, c) ==
  SumSeq([k \in 1..Len(taps) |-> taps[k].w * ReadAt(premult, taps[k].idx)[c]])

WeightSum(taps) == SumSeq([k \in 1..Len(taps) |-> taps[k].w])

\* Mutant of Normalised: norm = weightSum without the "|| 1"; a zero sum of
\* weights divides by zero.
NormalisedNoGuard(premult, taps, wd) ==
  CHOOSE smp \in
    {IF ws = 0 THEN NaNSample
     ELSE IF ws > 0 THEN Sample(n, ws)
     ELSE Sample([c \in 1..4 |-> -n[c]], -ws) :
       ws \in {WeightSum(taps)},
       n \in {[c \in 1..4 |-> WeightedSum(premult, taps, c)]}} : TRUE

\* the sums divided by norm = weightSum || 1, wd the denominator of the weights
Normalised(premult, taps, wd) ==
  CHOOSE smp \in
    {IF ws = 0 THEN Sample(n, wd)
     ELSE IF ws > 0 THEN Sample(n, ws)
     ELSE Sample([c \in 1..4 |-> -n[c]], -ws) :
       ws \in {WeightSum(taps)},
       n \in {[c \in 1..4 |-> WeightedSum(premult, taps, c)]}} : TRUE

(***************************************************************************)
(* Kernel library.  scaleX = sw / dw and scaleY = sh / dh; the source      *)
(* coordinate of destination index d is (d + 0.5) * scale - 0.5, here the  *)
(* numerator SrcNum over the denominator SrcDen.                           *)
(***************************************************************************)
\* Mutant of SrcNum: the centre is (d + 0.5) * scale, the "- 0.5" is missing.
SrcNumNoShift(d, s, dd) == (2 * d + 1) * s

SrcNum(d, s, dd) == (2 * d + 1) * s - dd

SrcDen(dd) == 2 * dd

\* Mutant of boxTaps: the footprint ends at Math.floor(xEnd), Math.floor(yEnd).
boxTapsFloorEnd(sw, sh, dw, dh, dx, dy) ==
  LET x0 == MathFloor(dx * sw, dw)
      x1 == MathMin(MathFloor((dx + 1) * sw, dw), sw)
      y0 == MathFloor(dy * sh, dh)
      y1 == MathMin(MathFloor((dy + 1) * sh, dh), sh)
      nx == x1 - x0
      ny == y1 - y0
  IN  IF nx <= 0 \/ ny <= 0 THEN <<>>
      ELSE [k \in 1..(nx * ny) |->
              LET x == x0 + ((k - 1) % nx)
                  y == y0 + ((k - 1) \div nx)
              IN  Tap(x, y, (y * sw + x) * 4, 1)]

\* boxSample: the footprint [x0, x1) x [y0, y1), read without clamping
boxTaps(sw, sh, dw, dh, dx, dy) ==
  LET x0 == MathFloor(dx * sw, dw)
      x1 == MathMin(MathCeil((dx + 1) * sw, dw), sw)
      y0 == MathFloor(dy * sh, dh)
      y1 == MathMin(MathCeil((dy + 1) * sh, dh), sh)
      nx == x1 - x0
      ny == y1 - y0
  IN  IF nx <= 0 \/ ny <= 0 THEN <<>>
      ELSE [k \in 1..(nx * ny) |->
              LET x == x0 + ((k - 1) % nx)
                  y == y0 + ((k - 1) \div nx)
              IN  Tap(x, y, (y * sw + x) * 4, 1)]

\* Mutant of boxSample: the colour sums are divided by count, the alpha sum is not.
boxSampleAlphaSum(premult, taps) ==
  LET count == Len(taps)
  IN  IF count = 0 THEN Sample(<<0, 0, 0, 0>>, 1)
      ELSE Sample(<<WeightedSum(premult, taps, 1), WeightedSum(premult, taps, 2),
                    WeightedSum(premult, taps, 3),
                    count * WeightedSum(premult, taps, 4)>>, count)

boxSample(premult, taps) ==
  LET count == Len(taps)
  IN  IF count = 0 THEN Sample(<<0, 0, 0, 0>>, 1)
      ELSE Sample([c \in 1..4 |-> WeightedSum(premult, taps, c)], count)

\* bilinearSample of imageProcessing: x1 and y1 are capped with Math.min, x0 and
\* y0 are not, and the four pixels are read at (y * sw + x) * 4 without clamping
bilinearTaps(sw, sh, dw, dh, dx, dy) ==
  LET Dx == SrcDen(dw)
      Dy == SrcDen(dh)
      x0 == MathFloor(SrcNum(dx, sw, dw), Dx)
      x1 == MathMin(MathCeil(SrcNum(dx, sw, dw), Dx), sw - 1)
      y0 == MathFloor(SrcNum(dy, sh, dh), Dy)
      y1 == MathMin(MathCeil(SrcNum(dy, sh, dh), Dy), sh - 1)
      wX == SrcNum(dx, sw, dw) - x0 * Dx
      wY == SrcNum(dy, sh, dh) - y0 * Dy
  IN  <<Tap(x0, y0, (y0 * sw + x0) * 4, (Dx - wX) * (Dy - wY)),
        Tap(x1, y0, (y0 * sw + x1) * 4, wX * (Dy - wY)),
        Tap(x0, y1, (y1 * sw + x0) * 4, (Dx - wX) * wY),
        Tap(x1, y1, (y1 * sw + x1) * 4, wX * wY)>>

\* bilinearSample of the inline revision: x1 = x0 + 1, y1 = y0 + 1, all four
\* pixels read through readPixel
bilinearTapsInline(sw, sh, dw, dh, dx, dy) ==
  LET Dx == SrcDen(dw)
      Dy == SrcDen(dh)
      x0 == MathFloor(SrcNum(dx, sw, dw), Dx)
      y0 == MathFloor(SrcNum(dy, sh, dh), Dy)
      x1 == x0 + 1
      y1 == y0 + 1
      fx == SrcNum(dx, sw, dw) - x0 * Dx
      fy == SrcNum(dy, sh, dh) - y0 * Dy
  IN  <<Tap(x0, y0, readPixelIdx(x0, y0, sw, sh), (Dx - fx) * (Dy - fy)),
        Tap(x1, y0, readPixelIdx(x1, y0, sw, sh), fx * (Dy - fy)),
        Tap(x0, y1, readPixelIdx(x0, y1, sw, sh), (Dx - fx) * fy),
        Tap(x1, y1, readPixelIdx(x1, y1, sw, sh), fx * fy)>>

\* lerp(lerp(p00, p10, wX), lerp(p01, p11, wX), wY): the weights sum to
\* Dx * Dy; arithmetic on an undefined read gives NaN in every channel
bilinearSample(premult, taps, dw, dh) ==
  IF \E k \in 1..Len(taps) : ReadAt(premult, taps[k].idx) = Undefined
  THEN NaNSample
  ELSE Sample([c \in 1..4 |-> WeightedSum(premult, taps, c)],
              SrcDen(dw) * SrcDen(dh))

\* cubicWeight(n / D) with a = -0.5 (Catmull-Rom), as a numerator over 2 * D^3
cubicWeight(n, D) ==
  LET abs == IF n < 0 THEN -n ELSE n
  IN  IF abs <= D THEN 3 * abs * abs * abs - 5 * abs * abs * D + 2 * D * D * D
      ELSE IF abs < 2 * D
           THEN 5 * abs * abs * D - abs * abs * abs - 8 * abs * D * D + 4 * D * D * D
           ELSE 0

cubicDen(D) == 2 * D * D * D

\* bicubicSample: the 4 x 4 neighbourhood, j the outer and i the inner loop
bicubicTaps(sw, sh, dw, dh, dx, dy) ==
  LET Dx    == SrcDen(dw)
      Dy    == SrcDen(dh)
      xInt  == MathFloor(SrcNum(dx, sw, dw), Dx)
      yInt  == MathFloor(SrcNum(dy, sh, dh), Dy)
      xFrac == SrcNum(dx, sw, dw) - xInt * Dx
      yFrac == SrcNum(dy, sh, dh) - yInt * Dy
  IN  [k \in 1..16 |->
         LET j == ((k - 1) \div 4) - 1
             i == ((k - 1) % 4) - 1
         IN  Tap(xInt + i, yInt + j, readPixelIdx(xInt + i, yInt + j, sw, sh),
                 cubicWeight(i * Dx - xFrac, Dx) * cubicWeight(j * Dy - yFrac, Dy))]

bicubicSample(premult, taps, dw, dh) ==
  Normalised(premult, taps, cubicDen(SrcDen(dw)) * cubicDen(SrcDen(dh)))

\* sinc(x) * sinc(x / 3) in thousandths for x = k / LanczosGrid, k = 0 .. 360
LanczosGrid == 120

LanczosScale == 1000

LanczosTable ==
  <<
     1000, 1000, 999, 999, 998, 997, 995, 994, 992, 990, 987, 985, 982, 979, 975,
     972, 968, 964, 959, 955, 950, 945, 940, 934, 929, 923, 917, 910, 904, 897,
     890, 883, 876, 868, 860, 852, 844, 836, 828, 819, 810, 801, 792, 783, 774,
     764, 755, 745, 735, 725, 715, 704, 694, 684, 673, 662, 652, 641, 630, 619,
     608, 597, 586, 574, 563, 552, 541, 529, 518, 506, 495, 483, 472, 461, 449,
     438, 426, 415, 403, 392, 381, 369, 358, 347, 336, 325, 314, 303, 292, 281,
     270, 260, 249, 238, 228, 218, 207, 197, 187, 177, 168, 158, 148, 139, 130,
     121, 111, 103, 94, 85, 77, 68, 60, 52, 44, 36, 29, 21, 14, 7,
     0, -7, -13, -20, -26, -32, -38, -44, -50, -55, -61, -66, -71, -76, -80,
     -85, -89, -93, -97, -101, -105, -108, -112, -115, -118, -121, -124, -126, -129, -131,
     -133, -135, -137, -138, -140, -141, -142, -143, -144, -145, -146, -146, -147, -147, -147,
     -147, -147, -147, -147, -146, -146, -145, -144, -144, -143, -142, -140, -139, -138, -137,
     -135, -134, -132, -130, -128, -127, -125, -123, -121, -119, -117, -115, -112, -110, -108,
     -105, -103, -101, -98, -96, -93, -91, -88, -86, -83, -81, -78, -76, -73, -70,
     -68, -65, -63, -60, -58, -55, -52, -50, -47, -45, -42, -40, -38, -35, -33,
     -31, -28, -26, -24, -22, -19, -17, -15, -13, -11, -9, -7, -5, -4, -2,
     0, 2, 3, 5, 7, 8, 9, 11, 12, 14, 15, 16, 17, 18, 19,
     20, 21, 22, 23, 24, 25, 26, 26, 27, 27, 28, 28, 29, 29, 30,
     30, 30, 31, 31, 31, 31, 31, 31, 31, 31, 31, 31, 31, 31, 31,
     30, 30, 30, 30, 29, 29, 28, 28, 28, 27, 27, 26, 26, 25, 25,
     24, 24, 23, 23, 22, 22, 21, 20, 20, 19, 19, 18, 17, 17, 16,
     16, 15, 14, 14, 13, 13, 12, 12, 11, 10, 10, 9, 9, 8, 8,
     7, 7, 6, 6, 6, 5, 5, 4, 4, 4, 3, 3, 3, 2, 2,
     2, 2, 1, 1, 1, 1, 1, 1, 0, 0, 0, 0, 0, 0, 0,
     0
  >>

\* the Lanczos weight of the distance n / D, window a = 3
lanczosWeight(n, D) ==
  LET abs == IF n < 0 THEN -n ELSE n
      k   == abs * (LanczosGrid \div D)
  IN  IF k >= 3 * LanczosGrid THEN 0 ELSE LanczosTable[k + 1]

\* lanczosSample: taps floor(s) - 2 .. floor(s) + 3 on each axis, y the outer
\* loop; wx and wy are the weights of the six columns and the six rows
lanczosTaps(sw, sh, dw, dh, dx, dy) ==
  CHOOSE taps \in
    {[k \in 1..36 |->
        LET y == yStart + ((k - 1) \div 6)
            x == xStart + ((k - 1) % 6)
        IN  Tap(x, y, readPixelIdx(x, y, sw, sh), wx[x - xStart + 1] * wy[y - yStart + 1])] :
       xStart \in {MathFloor(SrcNum(dx, sw, dw), SrcDen(dw)) - 3 + 1},
       yStart \in {MathFloor(SrcNum(dy, sh, dh), SrcDen(dh)) - 3 + 1},
       wx \in {[i \in 1..6 |->
                  lanczosWeight(SrcNum(dx, sw, dw)
                                  - (MathFloor(SrcNum(dx, sw, dw), SrcDen(dw)) - 3 + i)
                                      * SrcDen(dw), SrcDen(dw))]},
       wy \in {[j \in 1..6 |->
                  lanczosWeight(SrcNum(dy, sh, dh)
                                  - (MathFloor(SrcNum(dy, sh, dh), SrcDen(dh)) - 3 + j)
                                      * SrcDen(dh), SrcDen(dh))]}} : TRUE

lanczosSample(premult, taps) ==
  Normalised(premult, taps, LanczosScale * LanczosScale)

\* The source reads of destination cell (dx, dy) under the given algorithm.
\* The two revisions of resample differ in bilinearSample only.
Revisions == {"imageProcessing", "inline"}

KernelTaps(mode, rev, sw, sh, dw, dh, dx, dy) ==
  CASE mode = "box"      -> boxTaps(sw, sh, dw, dh, dx, dy)
    [] mode = "bilinear" -> IF rev = "inline"
                            THEN bilinearTapsInline(sw, sh, dw, dh, dx, dy)
                            ELSE bilinearTaps(sw, sh, dw, dh, dx, dy)
    [] mode = "bicubic"  -> bicubicTaps(sw, sh, dw, dh, dx, dy)
    [] OTHER             -> lanczosTaps(sw, sh, dw, dh, dx, dy)

\* clamp(Math.round(c * 255 / alpha), 0, 255) for the channel cn / d and the
\* alpha an / d > 0: a quotient of 255 or more clamps to 255, one of 0 or less
\* to 0, and in between the rounding is exact
Unpremultiply(cn, an) ==
  IF cn >= an THEN 255
  ELSE IF cn <= 0 THEN 0
  ELSE clamp((MulDivMod(cn, 510, an)[1] + 1) \div 2, 0, 255)

\* Mutant of setPixel: the premultiplied channels are stored as they are.
setPixelPremultiplied(s) ==
  IF s.nan THEN <<0, 0, 0, 0>>
  ELSE <<ToUint8Clamp(s.n[1], s.d), ToUint8Clamp(s.n[2], s.d),
         ToUint8Clamp(s.n[3], s.d), ToUint8Clamp(s.n[4], s.d)>>

\* setPixel: the pixel stored in dst for a kernel sample.  NaN > 0 is false and
\* NaN stores as 0.
setPixel(s) ==
  IF s.nan THEN <<0, 0, 0, 0>>
  ELSE IF s.n[4] > 0
       THEN <<Unpremultiply(s.n[1], s.n[4]),
              Unpremultiply(s.n[2], s.n[4]),
              Unpremultiply(s.n[3], s.n[4]),
              ToUint8Clamp(s.n[4], s.d)>>
       ELSE <<0, 0, 0, ToUint8Clamp(s.n[4], s.d)>>

\* the switch of resample's main loop: the sample of the cell whose reads are taps
KernelSample(premult, taps, mode, dw, dh) ==
  CASE mode = "box"      -> boxSample(premult, taps)
    [] mode = "bilinear" -> bilinearSample(premult, taps, dw, dh)
    [] mode = "bicubic"  -> bicubicSample(premult, taps, dw, dh)
    [] OTHER             -> lanczosSample(premult, taps)

\* one iteration of the main loop: the pixel stored for destination cell (dx, dy)
CellPixel(premult, mode, rev, sw, sh, dw, dh, dx, dy) ==
  CHOOSE px \in {setPixel(s) :
                  s \in {KernelSample(premult, taps, mode, dw, dh) :
                         taps \in {KernelTaps(mode, rev, sw, sh, dw, dh, dx, dy)}}} : TRUE

\* new Uint8ClampedArray(dw * dh * 4): zero-filled; a negative length throws
AllocThrows(dw, dh) == dw * dh * 4 < 0

ZeroPixels(n) == [p \in 1..n |-> <<0, 0, 0, 0>>]

\* the main loop runs only for 0 <= y < dh and 0 <= x < dw
LoopRuns(dw, dh) == dw > 0 /\ dh > 0

\* resample: the returned dst (its pixels), for dw * dh >= 0
resample(src, sw, sh, dw, dh, mode, rev) ==
  IF ~LoopRuns(dw, dh) THEN ZeroPixels(dw * dh)
  ELSE CHOOSE out \in {[p \in 1..(dw * dh) |->
                          CellPixel(premult, mode, rev, sw, sh, dw, dh,
                                    (p - 1) % dw, (p - 1) \div dw)] :
                       premult \in {Premultiply(src)}} : TRUE

(***************************************************************************)
(* The preview computation of the import modal (the animation-frame        *)
(* callback of schedulePreviewRender): background fill, drawImage,         *)
(* getImageData, resample, black lift, preview and grid.                   *)
(***************************************************************************)
\* null of a state cell or ref that otherwise holds a record
Null == [null |-> TRUE]

\* null of a cell that otherwise holds an array of pixels or of RGB triples
NoPixels == <<<<>>>>

\* no pixel: a canvas cell that drawImage does not touch
NoPixel == <<>>

BackgroundModes == {"none", "color", "black"}

\* crop = {x, y, size}; x and y are held in half source pixels, since
\* (w - size) / 2 need not be an integer; size is always an integer
Crop(x2, y2, size) == [x |-> x2, y |-> y2, size |-> size]

\* srcCtx.drawImage(img, x, y, size, size, 0, 0, cropSize, cropSize) at scale 1:
\* the image pixel under canvas cell (i, j), or NoPixel where the source rectangle
\* leaves the image (the canvas clips it and leaves those cells untouched).
\* A fractional origin is taken at its floor.
ImagePixelAt(img, cropState, i, j) ==
  LET x == MathFloor(cropState.x, 2) + i
      y == MathFloor(cropState.y, 2) + j
  IN  IF x >= 0 /\ x < img.w /\ y >= 0 /\ y < img.h
      THEN img.data[y * img.w + x + 1]
      ELSE NoPixel

\* source-over of pixel p onto the opaque fill colour bg
Over(p, bg) ==
  <<MathRound(p[1] * p[4] + bg[1] * (255 - p[4]), 255),
    MathRound(p[2] * p[4] + bg[2] * (255 - p[4]), 255),
    MathRound(p[3] * p[4] + bg[3] * (255 - p[4]), 255),
    255>>

\* Mutant of FillsBackground: the test is written as "not 'black'".
FillsUnlessBlack(mode) == mode # "black"

\* mode 'color' fills the source canvas with backgroundColor before the crop is
\* drawn; 'none' and 'black' clear it to transparent
FillsBackground(mode) == mode = "color"

\* Mutant of DrawSource: in mode 'color' fillRect is called after drawImage and
\* covers the crop.
DrawSourceFillLast(img, cropState, mode, bg) ==
  LET cropSize == cropState.size
  IN  Buffer(cropSize, cropSize,
        [p \in 1..(cropSize * cropSize) |->
           LET px == ImagePixelAt(img, cropState, (p - 1) % cropSize, (p - 1) \div cropSize)
           IN  IF FillsBackground(mode) THEN <<bg[1], bg[2], bg[3], 255>>
               ELSE (IF px = NoPixel THEN <<0, 0, 0, 0>> ELSE px)])

\* srcData: the cropSize x cropSize source canvas after fill / clear and drawImage
DrawSource(img, cropState, mode, bg) ==
  LET cropSize == cropState.size
  IN  Buffer(cropSize, cropSize,
        [p \in 1..(cropSize * cropSize) |->
           LET px == ImagePixelAt(img, cropState, (p - 1) % cropSize, (p - 1) \div cropSize)
           IN  IF FillsBackground(mode)
               THEN (IF px = NoPixel THEN <<bg[1], bg[2], bg[3], 255>> ELSE Over(px, bg))
               ELSE (IF px = NoPixel THEN <<0, 0, 0, 0>> ELSE px)])

\* Mutant of LiftChannel: the lift is added without the scale and the sum
\* stored in a byte that wraps.
LiftChannelWrap(c, lift) == (c + lift) % 256

\* clamp(Math.round(lift + channel * (255 - lift) / 255), 0, 255)
LiftChannel(c, lift) == clamp(MathRound(255 * lift + c * (255 - lift), 255), 0, 255)

\* the black lift applies in mode 'black' with blackLift > 0 only
LiftApplies(mode, lift) == mode = "black" /\ lift > 0

\* Mutant of BlackLift: the "alpha === 0" skip is missing.
BlackLiftNoSkip(buf, mode, lift) ==
  IF LiftApplies(mode, lift)
  THEN [p \in 1..Len(buf) |->
          <<LiftChannel(buf[p][1], lift), LiftChannel(buf[p][2], lift),
            LiftChannel(buf[p][3], lift), buf[p][4]>>]
  ELSE buf

\* the lift loop over resampled: pixels of alpha 0 are skipped, alpha is kept
BlackLift(buf, mode, lift) ==
  IF LiftApplies(mode, lift)
  THEN [p \in 1..Len(buf) |->
          IF buf[p][4] = 0 THEN buf[p]
          ELSE <<LiftChannel(buf[p][1], lift), LiftChannel(buf[p][2], lift),
                 LiftChannel(buf[p][3], lift), buf[p][4]>>]
  ELSE buf

\* Math.round(channel * alpha / 255)
FoldChannel(c, a) == MathRound(c * a, 255)

\* Mutant of GridOf: the RGB channels are copied without the alpha fold.
GridNoFold(buf) == [p \in 1..Len(buf) |-> <<buf[p][1], buf[p][2], buf[p][3]>>]

\* result: one RGB triple per pixel of resampled, in buffer order
GridOf(buf) ==
  [p \in 1..Len(buf) |->
     <<FoldChannel(buf[p][1], buf[p][4]), FoldChannel(buf[p][2], buf[p][4]),
       FoldChannel(buf[p][3], buf[p][4])>>]

\* new ImageData(data, matrixWidth, matrixHeight) throws unless both sizes are
\* positive and data holds matrixWidth * matrixHeight pixels
ImageDataThrows(buf, mw, mh) == mw <= 0 \/ mh <= 0 \/ Len(buf) # mw * mh

(***************************************************************************)
(* Source pixels and source images of the model.                           *)
(***************************************************************************)
White == <<255, 255, 255, 255>>

Black == <<0, 0, 0, 255>>

Red == <<255, 0, 0, 255>>

Teal == <<10, 200, 130, 255>>

\* fully transparent, with colour left in the channels
Clear == <<200, 100, 50, 0>>

\* half-transparent red: 255 * 128 / 255 premultiplies to exactly 128
HalfRed == <<255, 0, 0, 128>>

Palette == {White, Black, Red, Teal, Clear, HalfRed}

MixPalette == {White, Clear}

UniformImage(s, c) == Buffer(s, s, [p \in 1..(s * s) |-> c])

UniformSources == {UniformImage(s, c) : s \in 1..MaxSrc, c \in Palette}

\* every 2 x 2 image over MixPalette
MixedSources == {Buffer(2, 2, f) : f \in [1..4 -> MixPalette]}

\* the 2 x 2 opaque white / black checkerboard, two 2 x 2 images of mixed alpha,
\* and a 3 x 3 opaque red field with one fully transparent pixel in the middle
PatternSources ==
  {Buffer(2, 2, <<White, Black, Black, White>>),
   Buffer(2, 2, <<HalfRed, White, Clear, Black>>),
   Buffer(2, 2, <<Teal, HalfRed, HalfRed, Clear>>),
   Buffer(3, 3, <<Red, Red, Red, Red, Clear, Red, Red, Red, Red>>)}

Sources == UniformSources \cup MixedSources \cup PatternSources

\* target sizes, the degenerate ones included
DstRange == (-1)..MaxDst

\* backgroundMode, backgroundColor (as RGB) and blackLift as the controls can
\* leave them
BackgroundConfigs ==
  {[mode |-> "none",  color |-> <<0, 0, 0>>,       lift |-> 0],
   [mode |-> "none",  color |-> <<255, 255, 255>>, lift |-> 64],
   [mode |-> "color", color |-> <<255, 255, 255>>, lift |-> 64],
   [mode |-> "black", color |-> <<0, 0, 0>>,       lift |-> 0],
   [mode |-> "black", color |-> <<0, 0, 0>>,       lift |-> 64],
   [mode |-> "black", color |-> <<255, 255, 255>>, lift |-> 127]}

(***************************************************************************)
(* State.                                                                  *)
(***************************************************************************)
VARIABLES
  imageUrl,          \* the loaded image (its decoded pixels), or Null
  imageDims,         \* {w, h} or Null
  crop,              \* {x, y, size} or Null
  previewUrl,        \* the RGBA pixels shown as preview, or NoPixels
  pixelatedColors,   \* the grid of RGB triples, or NoPixels
  backgroundMode, backgroundColor, blackLift, scalingAlgorithm,
  matrixWidth, matrixHeight,      \* props of the modal
  revision,          \* which revision of resample is linked
  pc,                \* position of the running preview callback
  srcData,           \* getImageData of the source canvas
  dst,               \* resample: the destination pixels written so far
  pos,               \* resample: number of cells done, cell = (pos % dw, pos \div dw)
  sample,            \* resample: the kernel sample of the last cell
  reads,             \* resample: the source reads of the last cell
  returned,          \* the buffer resample returned, or NoPixels
  resampled,         \* the callback's buffer after the black lift, or NoPixels
  error,             \* the exception that ended the callback, or "none"
  cropRef,           \* cropRef.current
  imageDimsRef,      \* imageDimsRef.current
  dragState,         \* dragState.current: {active, offsetX, offsetY}
  movePending,       \* movePending.current: {x, y} or Null
  moveRaf,           \* moveRaf.current: a frame id, 0 for null
  previewRaf,        \* previewRaf.current: a frame id, 0 for null
  frames,            \* the browser's pending animation-frame callbacks
  nextRaf,           \* the id the next requestAnimationFrame returns
  effects,           \* a render has committed whose effects have not run yet
  displayType,       \* useLedApp: 'ring', 'matrix' or 'strip'
  ringLeds,          \* useLedApp: LED count of the ring
  stripLeds,         \* useLedApp: LED count of the strip
  ledColors,         \* useLedApp: the list of RGB triples
  selectedFormat,    \* useLedApp: the output format selected
  formatConfigs,     \* useLedApp: formatConfigs.wled_udp {mode, startIndex, timeoutSeconds}
  eagerOutputValue   \* useLedApp: the bytes the wled_udp output encodes, or NoBytes

engineVars == <<pc, srcData, dst, pos, sample, reads, returned, resampled, error>>

modalVars == <<imageUrl, imageDims, crop, previewUrl, pixelatedColors,
               backgroundMode, backgroundColor, blackLift, scalingAlgorithm,
               matrixWidth, matrixHeight, revision>>

refVars == <<cropRef, imageDimsRef, dragState, movePending, moveRaf, previewRaf,
             frames, nextRaf, effects>>

\* the state beside the LED configuration: the arguments and results of the
\* colour conversions
VARIABLES
  rgb,               \* colorUtils: the triple handed to rgbToHex / returned by hexToRgb
  hex                \* colorUtils: the string returned by rgbToHex / handed to hexToRgb

\* the import modal's isOpen prop and its image loads in flight
VARIABLES
  isOpen,            \* App: showImageImport && displayType === 'matrix'
  loading            \* loadFromBlob calls awaiting the rasterisation of an SVG

\* the saved designs
VARIABLES
  history,           \* useLedApp: the history list, newest entry first
  led_history,       \* localStorage: the list stored under 'led_history'
  saves,             \* handleSaveToHistory calls awaiting getSummary: the history
                     \* each closure captured
  now,               \* the clock that stamps the entries
  deleted            \* the timestamps handleDeleteFromHistory was called with

historyVars == <<history, led_history, saves, now, deleted>>

\* the URL hash and its synchronisation
VARIABLES
  hash,              \* window.location.hash as URLSearchParams reads it
  hashInitialized,   \* useLedApp: hashInitialized
  rotation,          \* useLedApp: rotation
  showLabels,        \* useLedApp: showLabels
  timer,             \* the setTimeout of the load effect: "unset", "set",
                     \* "running" or "done"
  params,            \* the parameters the load effect read from the hash
  calls,             \* the setter calls of the deferred callback already made
  batching,          \* whether React batches the setter calls of a timeout
  commit             \* a render of useLedApp has committed whose effects have
                     \* not run yet

hashVars == <<hash, hashInitialized, rotation, showLabels, timer, params, calls,
              batching, commit>>

\* the colours parameter of the hash as useHashSync writes and reads it
VARIABLES
  written,           \* colorsForHash: the colours handed to an encoder
  colorsValue,       \* the value of the colors parameter, "" before it is written
  parsedColors       \* what decodeColorsFromParam returned

codecVars == <<written, colorsValue, parsedColors>>

sideVars == <<rgb, hex, codecVars, isOpen, loading, historyVars, hashVars>>

\* the cells of useLedApp
ledVars == <<displayType, ringLeds, stripLeds, ledColors, selectedFormat,
             formatConfigs, eagerOutputValue>>

\* what the import modal's opening, closing and loading leave alone
besideModal == <<ledVars, rgb, hex, codecVars, historyVars, hashVars>>

\* a number n / d; d = 0 stands for Infinity (n > 0), -Infinity (n < 0), NaN (n = 0)
Num(n, d) == <<n, d>>

\* URLSearchParams of the empty hash: get() gives null for every key, which
\* the load effect reads as it reads the empty string
NoParams ==
  [type |-> "", leds |-> <<>>, width |-> <<>>, height |-> <<>>, rotation |-> <<>>,
   labels |-> "", colors |-> <<>>]

HashAtRest ==
  /\ hash = NoParams
  /\ hashInitialized = FALSE
  /\ rotation = 0
  /\ showLabels = TRUE
  /\ timer = "unset"
  /\ params = NoParams
  /\ calls = 0
  /\ batching = TRUE
  /\ commit = FALSE

\* the modal closed, no load in flight
OpenAtRest ==
  /\ isOpen = FALSE
  /\ loading = {}

\* no design saved, no save in flight
HistoryAtRest ==
  /\ history = <<>>
  /\ led_history = <<>>
  /\ saves = <<>>
  /\ now = 1
  /\ deleted = {}

\* nothing encoded, nothing decoded
CodecAtRest ==
  /\ written = <<>>
  /\ colorsValue = <<>>
  /\ parsedColors = NoPixels

SideAtRest ==
  /\ HashAtRest
  /\ CodecAtRest
  /\ OpenAtRest
  /\ HistoryAtRest
  /\ rgb = <<Num(0, 1), Num(0, 1), Num(0, 1)>>
  /\ hex = <<>>

appVars == <<displayType, ringLeds, stripLeds, ledColors, selectedFormat,
             formatConfigs, eagerOutputValue, sideVars>>

vars == <<modalVars, engineVars, refVars, appVars>>

DEFAULT_RING_LED_COUNT == 24

DEFAULT_STRIP_LED_COUNT == 60

createBlankColors(count) == [i \in 1..count |-> <<0, 0, 0>>]

\* eagerOutputValue when the selected format is not wled_udp (its text is not
\* modelled)
NoBytes == <<-1>>

\* defaultConfig of the wled_udp format
WledDefaultConfig == [mode |-> "drgb", startIndex |-> 0, timeoutSeconds |-> 1]

\* useLedApp behind the import modal: the matrix display was selected, the
\* other cells are as useState left them
AppAtRest ==
  /\ displayType = "matrix"
  /\ ringLeds = DEFAULT_RING_LED_COUNT
  /\ stripLeds = DEFAULT_STRIP_LED_COUNT
  /\ ledColors = createBlankColors(DEFAULT_RING_LED_COUNT)
  /\ selectedFormat = "rgb"
  /\ formatConfigs = WledDefaultConfig
  /\ eagerOutputValue = NoBytes
  /\ SideAtRest

\* the refs and the frame queue of a modal at rest
RefsAtRest ==
  /\ dragState = [active |-> FALSE, offsetX |-> 0, offsetY |-> 0]
  /\ movePending = Null
  /\ moveRaf = 0
  /\ previewRaf = 0
  /\ frames = {}
  /\ nextRaf = 1
  /\ effects = FALSE

(***************************************************************************)
(* Spec: one preview computation, from the animation-frame callback's      *)
(* start to setPixelatedColors, for every source image, target size,       *)
(* algorithm and background.  The crop is the full (square) image.         *)
(***************************************************************************)
Init ==
  /\ AppAtRest
  /\ imageUrl \in Sources
  /\ imageDims = [w |-> imageUrl.w, h |-> imageUrl.h]
  /\ crop = Crop(0, 0, imageUrl.w)
  /\ previewUrl = NoPixels
  /\ pixelatedColors = NoPixels
  /\ \E bg \in BackgroundConfigs :
       /\ backgroundMode = bg.mode
       /\ backgroundColor = bg.color
       /\ blackLift = bg.lift
  /\ scalingAlgorithm \in Algorithms
  /\ revision \in Revisions
  /\ (revision = "inline" => scalingAlgorithm = "bilinear")
  /\ matrixWidth \in DstRange
  /\ matrixHeight \in DstRange
  \* resample never looks at the source when a target size is degenerate: those
  \* sizes are combined with the one-pixel images only
  /\ (~LoopRuns(matrixWidth, matrixHeight) => imageUrl.w = 1)
  /\ pc = "draw"
  /\ srcData = Null
  /\ dst = NoPixels
  /\ pos = 0
  /\ sample = Null
  /\ reads = <<>>
  /\ returned = NoPixels
  /\ resampled = NoPixels
  /\ error = "none"
  /\ cropRef = crop
  /\ imageDimsRef = imageDims
  /\ RefsAtRest

\* Mutant of DrawCrop: the source canvas of the previous computation is kept
\* and not drawn again.
DrawCropReuse ==
  /\ UNCHANGED appVars
  /\ pc = "draw"
  /\ srcData' = IF srcData = Null
                THEN DrawSource(imageUrl, crop, backgroundMode, backgroundColor)
                ELSE srcData
  /\ pc' = "resample"
  /\ UNCHANGED <<modalVars, refVars, dst, pos, sample, reads, returned, resampled, error>>

\* lines 207-223: the source canvas is filled or cleared, the crop drawn, read back
DrawCrop ==
  /\ UNCHANGED appVars
  /\ pc = "draw"
  /\ srcData' = DrawSource(imageUrl, crop, backgroundMode, backgroundColor)
  /\ pc' = "resample"
  /\ UNCHANGED <<modalVars, refVars, dst, pos, sample, reads, returned, resampled, error>>

\* resample up to its main loop: dst is allocated (zero-filled)
ResampleBegin ==
  /\ UNCHANGED appVars
  /\ pc = "resample"
  /\ IF AllocThrows(matrixWidth, matrixHeight)
     THEN /\ pc' = "threw"
          /\ error' = "RangeError"
          /\ UNCHANGED dst
     ELSE /\ pc' = "loop"
          /\ dst' = ZeroPixels(matrixWidth * matrixHeight)
          /\ UNCHANGED error
  /\ pos' = 0
  /\ UNCHANGED <<modalVars, refVars, srcData, sample, reads, returned, resampled>>

\* one iteration of the main loop: kernel sample, then setPixel
ResampleCell ==
  /\ UNCHANGED appVars
  /\ pc = "loop"
  /\ LoopRuns(matrixWidth, matrixHeight)
  /\ pos < matrixWidth * matrixHeight
  /\ \E premult \in {Premultiply(srcData.data)} :
       \E taps \in {KernelTaps(scalingAlgorithm, revision, srcData.w, srcData.h,
                               matrixWidth, matrixHeight,
                               pos % matrixWidth, pos \div matrixWidth)} :
         \E s \in {KernelSample(premult, taps, scalingAlgorithm,
                                 matrixWidth, matrixHeight)} :
           /\ sample' = s
           /\ reads' = taps
           /\ dst' = [dst EXCEPT ![pos + 1] = setPixel(s)]
  /\ pos' = pos + 1
  /\ UNCHANGED <<modalVars, refVars, pc, srcData, returned, resampled, error>>

\* Mutant of ResampleReturn: the loop bound is off by one and the last cell is
\* left out.
ResampleReturnEarly ==
  /\ UNCHANGED appVars
  /\ pc = "loop"
  /\ ~LoopRuns(matrixWidth, matrixHeight) \/ pos >= matrixWidth * matrixHeight - 1
  /\ returned' = dst
  /\ pc' = "lift"
  /\ UNCHANGED <<modalVars, refVars, srcData, dst, pos, sample, reads, resampled, error>>

\* return dst
ResampleReturn ==
  /\ UNCHANGED appVars
  /\ pc = "loop"
  /\ ~LoopRuns(matrixWidth, matrixHeight) \/ pos = matrixWidth * matrixHeight
  /\ returned' = dst
  /\ pc' = "lift"
  /\ UNCHANGED <<modalVars, refVars, srcData, dst, pos, sample, reads, resampled, error>>

\* lines 226-236: the black lift, in place on the returned buffer
LiftStep ==
  /\ UNCHANGED appVars
  /\ pc = "lift"
  /\ resampled' = BlackLift(returned, backgroundMode, blackLift)
  /\ pc' = "present"
  /\ UNCHANGED <<modalVars, refVars, srcData, dst, pos, sample, reads, returned, error>>

\* lines 238-255: ImageData, setPreviewUrl and setPixelatedColors
Present ==
  /\ UNCHANGED appVars
  /\ pc = "present"
  /\ IF ImageDataThrows(resampled, matrixWidth, matrixHeight)
     THEN /\ pc' = "threw"
          /\ error' = "IndexSizeError"
          /\ UNCHANGED <<previewUrl, pixelatedColors>>
     ELSE /\ pc' = "done"
          /\ previewUrl' = resampled
          /\ pixelatedColors' = GridOf(resampled)
          /\ UNCHANGED error
  /\ UNCHANGED <<imageUrl, imageDims, crop, backgroundMode, backgroundColor, blackLift,
                 scalingAlgorithm, matrixWidth, matrixHeight, revision, refVars,
                 srcData, dst, pos, sample, reads, returned, resampled>>

Next ==
  \/ DrawCrop
  \/ ResampleBegin
  \/ ResampleCell
  \/ ResampleReturn
  \/ LiftStep
  \/ Present

Spec == Init /\ [][Next]_vars

\* SpecFair: the computations without background ('none'), under the fairness
\* of synchronous code: once started the callback runs on until it returns or
\* throws.
InitFair == Init /\ backgroundMode = "none" /\ backgroundColor = <<0, 0, 0>>

SpecFair == InitFair /\ [][Next]_vars /\ WF_vars(Next)

(***************************************************************************)
(* Properties of one preview computation (Spec).                           *)
(***************************************************************************)
IsByte(v) == v \in 0..255

ValidTarget == matrixWidth >= 1 /\ matrixHeight >= 1

\* C1 - Range invariant: for every source, every target size >= 1 and every
\* algorithm, every channel of every pixel resample has written or returned is
\* an integer in 0..255, whatever the kernel sample was; so is every channel of
\* the buffer after the lift and of the final grid.
C1_RangeInvariant ==
  ValidTarget =>
    /\ pc \in {"loop", "lift", "present", "done"} =>
         \A p \in 1..Len(dst) : \A c \in 1..4 : IsByte(dst[p][c])
    /\ pc \in {"lift", "present", "done"} =>
         \A p \in 1..Len(returned) : \A c \in 1..4 : IsByte(returned[p][c])
    /\ pc \in {"present", "done"} =>
         \A p \in 1..Len(resampled) : \A c \in 1..4 : IsByte(resampled[p][c])
    /\ pc = "done" =>
         \A p \in 1..Len(pixelatedColors) : \A c \in 1..3 : IsByte(pixelatedColors[p][c])

\* C1 witness: a Lanczos sample whose alpha overshoots 255 (ringing) has been
\* handed to setPixel and stored as 255.
C1_Witness ==
  /\ pc = "loop"
  /\ pos >= 1
  /\ scalingAlgorithm = "lanczos"
  /\ ~sample.nan
  /\ sample.n[4] > 255 * sample.d
  /\ dst[pos][4] = 255

\* C2 - Clamp-to-edge sampling: every source read of every kernel, for any
\* destination cell, is the read of the pixel at the coordinates clamped to
\* [0, sw-1] x [0, sh-1]: it lies inside the premultiplied buffer and is
\* neither another row's pixel nor undefined.
C2_ClampToEdge ==
  pc = "loop" =>
    \A k \in 1..Len(reads) :
      /\ reads[k].idx = readPixelIdx(reads[k].x, reads[k].y, srcData.w, srcData.h)
      /\ reads[k].idx >= 0
      /\ reads[k].idx < 4 * srcData.w * srcData.h

\* C3 - Upscale identity on a constant field: a 1 x 1 fully opaque white source
\* resampled to any w x h >= 1 with any algorithm is white in every pixel.
C3_UpscaleIdentity ==
  (/\ pc \in {"lift", "present", "done"}
   /\ ValidTarget
   /\ srcData = Buffer(1, 1, <<White>>))
  => \A p \in 1..Len(returned) : returned[p] = White

IsUniformOpaque(buf) ==
  /\ buf.data[1][4] = 255
  /\ \A p \in 1..Len(buf.data) : buf.data[p] = buf.data[1]

\* C4 - Energy conservation for box: a source of any size s x s whose pixels
\* all have the same opaque colour, resampled with 'box' to any target with
\* 1 <= dw, dh <= s, gives that colour with alpha 255 in every output pixel,
\* and (without lift) that colour in every triple of the grid.
C4_BoxEnergy ==
  (/\ pc \in {"lift", "present", "done"}
   /\ scalingAlgorithm = "box"
   /\ ValidTarget
   /\ matrixWidth <= srcData.w
   /\ matrixHeight <= srcData.h
   /\ IsUniformOpaque(srcData))
  => /\ Len(returned) = matrixWidth * matrixHeight
     /\ \A p \in 1..Len(returned) : returned[p] = srcData.data[1]
     /\ (pc = "done" /\ ~LiftApplies(backgroundMode, blackLift)) =>
          \A p \in 1..Len(pixelatedColors) :
            pixelatedColors[p] =
              <<srcData.data[1][1], srcData.data[1][2], srcData.data[1][3]>>

\* C4 witness: the 4 x 4 solid red source, box, 2 x 2 target, grid all red.
C4_Witness ==
  /\ pc = "done"
  /\ scalingAlgorithm = "box"
  /\ srcData = UniformImage(4, Red)
  /\ matrixWidth = 2
  /\ matrixHeight = 2
  /\ pixelatedColors = <<<<255, 0, 0>>, <<255, 0, 0>>, <<255, 0, 0>>, <<255, 0, 0>>>>

\* C5 - Target-dimension validation: with destWidth <= 0 or destHeight <= 0
\* resample fails with InvalidDimensions and never returns a buffer.
C5_DimensionValidation ==
  (matrixWidth <= 0 \/ matrixHeight <= 0) =>
    /\ pc \notin {"lift", "present", "done"}
    /\ (pc = "threw" => error = "InvalidDimensions")

\* C7 - Alpha fold correctness: if every pixel of the source crop has alpha 0
\* and the background mode is 'none', every triple of the final grid is
\* (0, 0, 0), for every algorithm and target size, whatever the RGB of the
\* transparent pixels.
C7_AlphaFold ==
  (/\ pc = "done"
   /\ backgroundMode = "none"
   /\ \A p \in 1..Len(imageUrl.data) : imageUrl.data[p][4] = 0)
  => \A p \in 1..Len(pixelatedColors) : pixelatedColors[p] = <<0, 0, 0>>

\* C7 witness: a 2 x 2 fully transparent crop with colour in its channels,
\* background 'none' with a white background colour left in the control,
\* resampled to 3 x 2; the grid has been produced.
C7_Witness ==
  /\ pc = "done"
  /\ backgroundMode = "none"
  /\ backgroundColor = <<255, 255, 255>>
  /\ imageUrl = UniformImage(2, Clear)
  /\ matrixWidth = 3
  /\ matrixHeight = 2
  /\ Len(pixelatedColors) = 6

\* C9 - Grid extraction and preview consistency: preview and grid are set
\* together; the grid has matrixWidth * matrixHeight triples and triple i is
\* round(channel * alpha / 255) of pixel i of the buffer shown as preview.
C9_GridMatchesPreview ==
  /\ (previewUrl = NoPixels) <=> (pixelatedColors = NoPixels)
  /\ pixelatedColors # NoPixels =>
       /\ Len(pixelatedColors) = matrixWidth * matrixHeight
       /\ Len(previewUrl) = matrixWidth * matrixHeight
       /\ \A i \in 1..Len(pixelatedColors) : \A c \in 1..3 :
            pixelatedColors[i][c] = (2 * previewUrl[i][c] * previewUrl[i][4] + 255) \div 510

\* C9 witness: a 3 x 2 grid has been produced from a preview that has a pixel
\* of partial alpha and non-zero red, so the fold changes the value.
C9_Witness ==
  /\ pc = "done"
  /\ matrixWidth = 3
  /\ matrixHeight = 2
  /\ \E i \in 1..Len(previewUrl) :
       /\ previewUrl[i][4] \in 1..254
       /\ previewUrl[i][1] > 0
       /\ pixelatedColors[i][1] < previewUrl[i][1]

\* C10 - trueBlack frame condition: the lift step leaves every alpha unchanged
\* and every pixel of resampled alpha 0 unchanged; in mode 'black' it replaces
\* r, g, b of the other pixels by clamp(round(lift + c * (255 - lift) / 255));
\* in the other modes it changes no pixel.
C10_LiftFrame ==
  pc \in {"present", "done"} =>
    /\ Len(resampled) = Len(returned)
    /\ \A p \in 1..Len(returned) :
         /\ resampled[p][4] = returned[p][4]
         /\ returned[p][4] = 0 => resampled[p] = returned[p]
         /\ (backgroundMode = "black" /\ returned[p][4] # 0) =>
              \A c \in 1..3 :
                resampled[p][c] =
                  clamp((2 * (255 * blackLift + returned[p][c] * (255 - blackLift)) + 255)
                          \div 510, 0, 255)
    /\ backgroundMode # "black" => resampled = returned

\* C10 witness: mode 'black' with lift 64 has run over a buffer holding a pixel
\* of alpha 0 and a pixel of non-zero alpha whose red channel was raised.
C10_Witness ==
  /\ pc = "done"
  /\ backgroundMode = "black"
  /\ blackLift = 64
  /\ \E p \in 1..Len(returned) : returned[p][4] = 0
  /\ \E p \in 1..Len(returned) : returned[p][4] # 0 /\ resampled[p][1] > returned[p][1]

IsOpaque(buf) == \A p \in 1..Len(buf.data) : buf.data[p][4] = 255

\* C12 - Bilinear identity at scale 1: with dw = sw and dh = sh, bilinear
\* resampling of a fully opaque source returns the source pixel for pixel, in
\* both revisions of bilinearSample.
C12_BilinearIdentity ==
  (/\ pc \in {"lift", "present", "done"}
   /\ scalingAlgorithm = "bilinear"
   /\ matrixWidth = srcData.w
   /\ matrixHeight = srcData.h
   /\ IsOpaque(srcData))
  => returned = srcData.data

\* C12 witness: the 2 x 2 opaque white / black checkerboard, bilinear of
\* imageProcessing, 2 x 2 target, returned unchanged.
C12_Witness ==
  /\ pc = "done"
  /\ scalingAlgorithm = "bilinear"
  /\ revision = "imageProcessing"
  /\ srcData = Buffer(2, 2, <<White, Black, Black, White>>)
  /\ matrixWidth = 2
  /\ matrixHeight = 2
  /\ returned = <<White, Black, Black, White>>

\* C13 - Constant fields are fixed points of every kernel: a source of any
\* size whose pixels all have the same opaque colour c gives, with every
\* algorithm and every target size >= 1, output pixels all equal to (c, 255).
C13_ConstantField ==
  (/\ pc \in {"lift", "present", "done"}
   /\ ValidTarget
   /\ IsUniformOpaque(srcData))
  => /\ Len(returned) = matrixWidth * matrixHeight
     /\ \A p \in 1..Len(returned) : returned[p] = srcData.data[1]

\* C14 - solidColor removes transparency entirely: in background mode 'color'
\* every pixel handed to the resampler has alpha 255, every pixel of the
\* resampled buffer has alpha 255 for every algorithm and target size >= 1,
\* and each grid triple equals the RGB of the corresponding preview pixel.
C14_SolidColor ==
  (backgroundMode = "color" /\ ValidTarget) =>
    /\ pc \in {"resample", "loop", "lift", "present", "done"} => IsOpaque(srcData)
    /\ pc \in {"lift", "present", "done"} =>
         \A p \in 1..Len(returned) : returned[p][4] = 255
    /\ pc \in {"present", "done"} =>
         \A p \in 1..Len(resampled) : resampled[p][4] = 255
    /\ pc = "done" =>
         \A p \in 1..Len(pixelatedColors) :
           pixelatedColors[p] = <<previewUrl[p][1], previewUrl[p][2], previewUrl[p][3]>>

\* the order of the stages of one preview computation
StageOrder ==
  {<<"draw", "resample">>, <<"resample", "loop">>, <<"resample", "threw">>,
   <<"loop", "lift">>, <<"lift", "present">>, <<"present", "done">>,
   <<"present", "threw">>}

\* C15 - Stage ordering within one preview computation: the colour fill (mode
\* 'color' only) lies under the drawn crop and is in the source before
\* resample is called; the lift happens after resample has returned and
\* before preview and grid are derived; no fill is applied to the resampled
\* buffer and no lift to the source crop.
C15_StageOrder ==
  /\ [][pc' # pc => <<pc, pc'>> \in StageOrder]_vars
  /\ [](pc = "draw" => srcData = Null)
  /\ [](pc \in {"draw", "resample", "loop"} => returned = NoPixels)
  /\ [](pc \in {"draw", "resample", "loop", "lift"} => resampled = NoPixels)
  /\ [](pc \in {"draw", "resample", "loop", "lift", "present"} =>
          previewUrl = NoPixels /\ pixelatedColors = NoPixels)
  /\ [](pc \in {"resample", "loop", "lift", "present", "done"} =>
          \A p \in 1..Len(imageUrl.data) :
            LET ip == imageUrl.data[p]
                sp == srcData.data[p]
            IN  IF backgroundMode = "color"
                THEN /\ ip[4] = 255 => sp = ip
                     /\ ip[4] = 0 =>
                          sp = <<backgroundColor[1], backgroundColor[2],
                                 backgroundColor[3], 255>>
                ELSE sp = ip)
  /\ [](pc \in {"present", "done"} /\ backgroundMode # "black" => resampled = returned)
  /\ [](pc = "done" => previewUrl = resampled)

\* C15 witness: a computation in mode 'black' with lift 64 has finished; the
\* source handed to resample holds the image's opaque black pixel unlifted and
\* the lift has changed the returned buffer.
C15_Witness ==
  /\ pc = "done"
  /\ backgroundMode = "black"
  /\ blackLift = 64
  /\ \E p \in 1..Len(srcData.data) : srcData.data[p] = Black /\ imageUrl.data[p] = Black
  /\ resampled # returned
  /\ previewUrl = resampled

\* C16 - Totality: for every source with sw, sh >= 1, every dw, dh >= 1 and
\* every algorithm, resample terminates without throwing, returns a buffer of
\* exactly dw * dh pixels (dw * dh * 4 bytes), and each loop iteration writes
\* the next destination cell and no other, so that every cell is written
\* exactly once.
C16_Totality ==
  /\ [](ValidTarget => pc # "threw")
  /\ [](ValidTarget /\ pc = "loop" => Len(dst) = matrixWidth * matrixHeight)
  /\ [](ValidTarget /\ pc \in {"lift", "present", "done"} =>
          /\ pos = matrixWidth * matrixHeight
          /\ Len(returned) = matrixWidth * matrixHeight)
  /\ [][(ValidTarget /\ pc = "loop" /\ dst' # dst) =>
          /\ pos' = pos + 1
          /\ \A q \in 1..Len(dst) : q # pos + 1 => dst'[q] = dst[q]]_vars
  /\ [][(ValidTarget /\ pc = "loop" /\ pos' # pos) => pos' = pos + 1 /\ pc' = "loop"]_vars
  /\ ((ValidTarget /\ pc = "resample") ~> (pc = "lift"))

\* C16 witness: the bilinear kernel of imageProcessing has upscaled a 2 x 2
\* source to 3 x 3, with reads outside the source, and resample has returned
\* nine pixels.
C16_Witness ==
  /\ pc = "lift"
  /\ scalingAlgorithm = "bilinear"
  /\ revision = "imageProcessing"
  /\ srcData.w = 2
  /\ matrixWidth = 3
  /\ matrixHeight = 3
  /\ pos = 9
  /\ Len(returned) = 9

(***************************************************************************)
(* SpecModal: the import modal's handlers, effects and animation frames.   *)
(* A handler commits its state update at once; the effects of that render  *)
(* (cropRef, imageDimsRef, the two preview effects) run as a separate step *)
(* before the next event handler, while an animation frame may run first.  *)
(* The preview callback runs as one step.                                  *)
(***************************************************************************)
\* a 2 x 2 and a 3 x 2 image
ModalImages ==
  {Buffer(2, 2, <<White, Clear, HalfRed, Black>>),
   Buffer(3, 2, <<Red, White, Clear, Teal, HalfRed, Black>>)}

\* matrixWidth x matrixHeight of the modal
ModalTargets == {<<1, 1>>, <<3, 2>>}

PointerRange == 0..MaxPointer

\* the idle engine variables, which SpecModal leaves alone
EngineIdle ==
  /\ pc = "idle"
  /\ srcData = Null
  /\ dst = NoPixels
  /\ pos = 0
  /\ sample = Null
  /\ reads = <<>>
  /\ returned = NoPixels
  /\ resampled = NoPixels
  /\ error = "none"

InitModal ==
  /\ AppAtRest
  /\ imageUrl = Null
  /\ imageDims = Null
  /\ crop = Null
  /\ previewUrl = NoPixels
  /\ pixelatedColors = NoPixels
  /\ backgroundMode = "none"
  /\ backgroundColor = <<0, 0, 0>>
  /\ blackLift = 0
  /\ scalingAlgorithm = "lanczos"
  /\ revision = "imageProcessing"
  /\ \E t \in ModalTargets : matrixWidth = t[1] /\ matrixHeight = t[2]
  /\ cropRef = Null
  /\ imageDimsRef = Null
  /\ RefsAtRest
  /\ EngineIdle

\* the state cells resetState sets
ResetCells ==
  /\ imageDims' = Null
  /\ crop' = Null
  /\ previewUrl' = NoPixels
  /\ pixelatedColors' = NoPixels
  /\ backgroundMode' = "none"
  /\ backgroundColor' = <<0, 0, 0>>
  /\ blackLift' = 0
  /\ scalingAlgorithm' = "lanczos"

\* loadFromBlob of a raster image into the empty modal: setImageUrl(url),
\* resetState()
loadFromBlob(img) ==
  /\ UNCHANGED appVars
  /\ isOpen
  /\ ~effects
  /\ imageUrl = Null
  /\ imageUrl' = img
  /\ ResetCells
  /\ cropRef' = Null
  /\ imageDimsRef' = Null
  /\ effects' = TRUE
  /\ UNCHANGED <<matrixWidth, matrixHeight, revision, engineVars,
                 dragState, movePending, moveRaf, previewRaf, frames, nextRaf>>

\* handleImageLoad: the <img> has loaded; the crop is the centred largest square
handleImageLoad ==
  /\ UNCHANGED appVars
  /\ isOpen
  /\ ~effects
  /\ imageUrl # Null
  /\ imageDims = Null
  /\ LET w    == imageUrl.w
         h    == imageUrl.h
         size == MathMin(w, h)
     IN  /\ imageDims' = [w |-> w, h |-> h]
         /\ imageDimsRef' = [w |-> w, h |-> h]
         /\ crop' = Crop(w - size, h - size, size)
  /\ effects' = TRUE
  /\ UNCHANGED <<imageUrl, previewUrl, pixelatedColors, backgroundMode, backgroundColor,
                 blackLift, scalingAlgorithm, matrixWidth, matrixHeight, revision,
                 engineVars, cropRef, dragState, movePending, moveRaf, previewRaf,
                 frames, nextRaf>>

\* the closure of the callback schedulePreviewRender hands to requestAnimationFrame
PreviewFrameOf(id, cropState) ==
  [id |-> id, kind |-> "preview", cropState |-> cropState, img |-> imageUrl,
   mode |-> backgroundMode, color |-> backgroundColor, lift |-> blackLift,
   algorithm |-> scalingAlgorithm, dw |-> matrixWidth, dh |-> matrixHeight]

MoveFrameOf(id) == [id |-> id, kind |-> "move"]

\* schedulePreviewRender returns early without image, crop ref or dims ref
CanSchedule(cropState, dimsState) ==
  imageUrl # Null /\ cropState # Null /\ dimsState # Null

\* Mutant of SchedulePreview: the pending frame is not cancelled.
SchedulePreviewNoCancel(cropState, dimsState) ==
  IF CanSchedule(cropState, dimsState)
  THEN /\ frames' = frames \cup {PreviewFrameOf(nextRaf, cropState)}
       /\ previewRaf' = nextRaf
       /\ nextRaf' = nextRaf + 1
  ELSE UNCHANGED <<frames, previewRaf, nextRaf>>

\* schedulePreviewRender with cropRef.current = cropState: the pending preview
\* frame is cancelled and a new one requested
SchedulePreview(cropState, dimsState) ==
  IF CanSchedule(cropState, dimsState)
  THEN /\ frames' = {f \in frames : f.id # previewRaf} \cup {PreviewFrameOf(nextRaf, cropState)}
       /\ previewRaf' = nextRaf
       /\ nextRaf' = nextRaf + 1
  ELSE UNCHANGED <<frames, previewRaf, nextRaf>>

\* the effects after a render: the two refs follow the state, then the preview
\* effects call schedulePreviewRender unless a drag is active
RunEffects ==
  /\ UNCHANGED appVars
  /\ effects
  /\ nextRaf <= MaxFrames
  /\ effects' = FALSE
  /\ cropRef' = crop
  /\ imageDimsRef' = imageDims
  /\ IF imageUrl # Null /\ crop # Null /\ ~dragState.active
     THEN SchedulePreview(crop, imageDims)
     ELSE UNCHANGED <<frames, previewRaf, nextRaf>>
  /\ UNCHANGED <<modalVars, engineVars, dragState, movePending, moveRaf>>

\* handleMouseDown at pointer (x, y), in half source pixels.  displayMetrics is
\* set once imageDims is.  The pointer sends no second mouse down before the
\* mouse up (or mouse leave) of the first.
handleMouseDown(x, y) ==
  /\ UNCHANGED appVars
  /\ ~effects
  /\ ~dragState.active
  /\ crop # Null
  /\ imageDims # Null
  /\ dragState' = [active |-> TRUE, offsetX |-> x - crop.x, offsetY |-> y - crop.y]
  /\ UNCHANGED <<modalVars, engineVars, cropRef, imageDimsRef, movePending, moveRaf,
                 previewRaf, frames, nextRaf, effects>>

\* handleMouseMove at pointer (x, y): the clamped position is left in
\* movePending and a move frame requested unless one is pending
handleMouseMove(x, y) ==
  /\ UNCHANGED appVars
  /\ ~effects
  /\ dragState.active
  /\ crop # Null
  /\ imageDims # Null
  /\ nextRaf <= MaxFrames
  /\ movePending' =
       [x |-> clamp(x - dragState.offsetX, 0, 2 * (imageDims.w - crop.size)),
        y |-> clamp(y - dragState.offsetY, 0, 2 * (imageDims.h - crop.size))]
  /\ IF moveRaf = 0
     THEN /\ moveRaf' = nextRaf
          /\ frames' = frames \cup {MoveFrameOf(nextRaf)}
          /\ nextRaf' = nextRaf + 1
     ELSE UNCHANGED <<moveRaf, frames, nextRaf>>
  /\ UNCHANGED <<modalVars, engineVars, cropRef, imageDimsRef, dragState, previewRaf,
                 effects>>

\* the move frame: the pending position is clamped again and committed
MoveFrame ==
  /\ UNCHANGED appVars
  /\ \E f \in frames :
    /\ f.kind = "move"
    /\ frames' = frames \ {f}
    /\ moveRaf' = 0
    /\ IF movePending = Null \/ imageDimsRef = Null \/ cropRef = Null \/ crop = Null
       THEN UNCHANGED <<crop, effects>>
       ELSE LET maxX == MathMax(0, 2 * (imageDimsRef.w - cropRef.size))
                maxY == MathMax(0, 2 * (imageDimsRef.h - cropRef.size))
            IN  /\ crop' = [crop EXCEPT !.x = clamp(movePending.x, 0, maxX),
                                        !.y = clamp(movePending.y, 0, maxY)]
                /\ effects' = TRUE
    /\ UNCHANGED <<imageUrl, imageDims, previewUrl, pixelatedColors, backgroundMode,
                   backgroundColor, blackLift, scalingAlgorithm, matrixWidth,
                   matrixHeight, revision, engineVars, cropRef, imageDimsRef,
                   dragState, movePending, previewRaf, nextRaf>>

\* Mutant of handleMouseUp: the drag is ended without schedulePreviewRender.
handleMouseUpNoSchedule ==
  /\ UNCHANGED appVars
  /\ nextRaf <= MaxFrames
  /\ dragState' = [dragState EXCEPT !.active = FALSE]
  /\ movePending' = Null
  /\ UNCHANGED <<modalVars, engineVars, cropRef, imageDimsRef, moveRaf, effects,
                 frames, previewRaf, nextRaf>>

\* handleMouseUp (mouse up, or the pointer leaving the crop container).  It
\* reads no state, and the event can arrive between a setCrop of the move frame
\* and the effects of the render that follows.
handleMouseUp ==
  /\ UNCHANGED appVars
  /\ nextRaf <= MaxFrames
  /\ dragState' = [dragState EXCEPT !.active = FALSE]
  /\ movePending' = Null
  /\ SchedulePreview(cropRef, imageDimsRef)
  /\ UNCHANGED <<modalVars, engineVars, cropRef, imageDimsRef, moveRaf, effects>>

\* handleSizeChange with the input value raw (0 when it does not parse).  The
\* handler bounds nextSize by step from below whatever maxSize is.
handleSizeChange(raw) ==
  /\ UNCHANGED appVars
  /\ ~effects
  /\ imageDims # Null
  /\ crop # Null
  /\ LET value    == IF raw = 0 THEN crop.size ELSE raw
         maxSize  == MathMin(imageDims.w, imageDims.h)
         step     == MathMax(1, MathMax(matrixWidth, matrixHeight))
         snapped  == MathRound(value, step) * step
         nextSize == clamp(snapped, step, maxSize)
         maxX     == 2 * (imageDims.w - nextSize)
         maxY     == 2 * (imageDims.h - nextSize)
     IN  crop' = Crop(clamp(crop.x, 0, maxX), clamp(crop.y, 0, maxY), nextSize)
  /\ effects' = TRUE
  /\ UNCHANGED <<imageUrl, imageDims, previewUrl, pixelatedColors, backgroundMode,
                 backgroundColor, blackLift, scalingAlgorithm, matrixWidth,
                 matrixHeight, revision, engineVars, cropRef, imageDimsRef, dragState,
                 movePending, moveRaf, previewRaf, frames, nextRaf>>

\* handleCenterCrop
handleCenterCrop ==
  /\ UNCHANGED appVars
  /\ ~effects
  /\ imageDims # Null
  /\ LET maxSize     == MathMin(imageDims.w, imageDims.h)
         currentSize == IF crop # Null /\ crop.size # 0
                        THEN MathMin(crop.size, maxSize) ELSE maxSize
     IN  /\ crop' = Crop(imageDims.w - currentSize, imageDims.h - currentSize, currentSize)
         /\ crop' # crop
  /\ effects' = TRUE
  /\ UNCHANGED <<imageUrl, imageDims, previewUrl, pixelatedColors, backgroundMode,
                 backgroundColor, blackLift, scalingAlgorithm, matrixWidth,
                 matrixHeight, revision, engineVars, cropRef, imageDimsRef, dragState,
                 movePending, moveRaf, previewRaf, frames, nextRaf>>

\* the preview frame: the whole callback of schedulePreviewRender.  A throw of
\* the allocation or of ImageData ends it before the two setters.
PreviewFrame ==
  /\ UNCHANGED appVars
  /\ \E f \in frames :
    /\ f.kind = "preview"
    /\ frames' = frames \ {f}
    /\ IF AllocThrows(f.dw, f.dh)
       THEN UNCHANGED <<previewUrl, pixelatedColors>>
       ELSE \E src \in {DrawSource(f.img, f.cropState, f.mode, f.color)} :
              \E out \in {BlackLift(resample(src.data, src.w, src.h, f.dw, f.dh,
                                             f.algorithm, revision), f.mode, f.lift)} :
                IF ImageDataThrows(out, f.dw, f.dh)
                THEN UNCHANGED <<previewUrl, pixelatedColors>>
                ELSE /\ previewUrl' = out
                     /\ pixelatedColors' = GridOf(out)
    /\ UNCHANGED <<imageUrl, imageDims, crop, backgroundMode, backgroundColor, blackLift,
                   scalingAlgorithm, matrixWidth, matrixHeight, revision, engineVars,
                   cropRef, imageDimsRef, dragState, movePending, moveRaf, previewRaf,
                   nextRaf, effects>>

\* handleClose: the image is dropped, the state reset, pending frames cancelled
handleClose ==
  /\ isOpen
  /\ ~effects
  /\ imageUrl' = Null
  /\ ResetCells
  /\ movePending' = Null
  /\ frames' = {f \in frames : f.id # moveRaf /\ f.id # previewRaf}
  /\ moveRaf' = 0
  /\ previewRaf' = 0
  /\ cropRef' = Null
  /\ imageDimsRef' = Null
  /\ effects' = TRUE
  /\ isOpen' = FALSE
  /\ UNCHANGED <<matrixWidth, matrixHeight, revision, engineVars, dragState, nextRaf,
                 besideModal, loading>>

\* onOpenImageImport: the import button of the matrix display opens the modal
onOpenImageImport ==
  /\ ~isOpen
  /\ ~effects
  /\ displayType = "matrix"
  /\ isOpen' = TRUE
  /\ UNCHANGED <<modalVars, engineVars, refVars, besideModal, loading>>

NextModal ==
  \/ \E img \in ModalImages : loadFromBlob(img)
  \/ handleImageLoad
  \/ RunEffects
  \/ \E x \in PointerRange, y \in PointerRange : handleMouseDown(x, y)
  \/ \E x \in PointerRange, y \in PointerRange : handleMouseMove(x, y)
  \/ MoveFrame
  \/ handleMouseUp
  \/ \E raw \in 0..MaxRawSize : handleSizeChange(raw)
  \/ handleCenterCrop
  \/ PreviewFrame
  \/ handleClose
  \/ onOpenImageImport

SpecModal == InitModal /\ [][NextModal]_vars

(***************************************************************************)
(* Properties of the modal (SpecModal).                                    *)
(***************************************************************************)
\* crop coordinates are in half pixels
CropInside(c, w, h) ==
  /\ 0 <= c.x
  /\ 0 <= c.y
  /\ c.x + 2 * c.size <= 2 * w
  /\ c.y + 2 * c.size <= 2 * h

\* C6 - Crop validation: a preview computation whose crop has size <= 0 or
\* lies partly outside the source image is rejected: it leaves the shown
\* preview and pixelatedColors unchanged.
C6_CropValidation ==
  [][\A f \in frames :
       (/\ f.kind = "preview"
        /\ f \notin frames'
        /\ (f.cropState.size <= 0 \/ ~CropInside(f.cropState, f.img.w, f.img.h)))
       => (previewUrl' = previewUrl /\ pixelatedColors' = pixelatedColors)]_vars

\* C8 - CropRegion invariant: after any sequence of image load, crop drag, crop
\* size change and center-crop, a non-null crop satisfies 0 <= x, 0 <= y,
\* x + size <= image width, y + size <= image height and size > 0.
C8_CropInvariant ==
  (crop # Null /\ imageDims # Null) =>
    /\ crop.size > 0
    /\ CropInside(crop, imageDims.w, imageDims.h)

(***************************************************************************)
(* SpecLift: the lift section of the preview callback on one opaque pixel, *)
(* for every channel value and every position of the lift slider.  Moving  *)
(* the slider computes the preview again from the same crop, so resample   *)
(* returns the same buffer and the lift runs on it with the new amount.    *)
(***************************************************************************)
\* max of the "Lift filled pixels" range input
LiftMax == 127

ModalAtRest ==
  /\ imageUrl = Null
  /\ imageDims = Null
  /\ crop = Null
  /\ previewUrl = NoPixels
  /\ pixelatedColors = NoPixels
  /\ backgroundColor = <<0, 0, 0>>
  /\ scalingAlgorithm = "lanczos"
  /\ revision = "imageProcessing"
  /\ matrixWidth = 1
  /\ matrixHeight = 1
  /\ cropRef = Null
  /\ imageDimsRef = Null
  /\ RefsAtRest

InitLift ==
  /\ AppAtRest
  /\ ModalAtRest
  /\ backgroundMode = "black"
  /\ blackLift \in 0..LiftMax
  /\ pc = "lift"
  /\ srcData = Null
  /\ dst = NoPixels
  /\ pos = 0
  /\ sample = Null
  /\ reads = <<>>
  /\ \E c \in 0..255 : returned = << <<c, c, c, 255>> >>
  /\ resampled = NoPixels
  /\ error = "none"

\* setBlackLift(lift) from the slider, then the lift of the next preview
\* computation on the same resample result
LiftAgain(lift) ==
  /\ UNCHANGED appVars
  /\ pc = "present"
  /\ blackLift' = lift
  /\ resampled' = BlackLift(returned, backgroundMode, lift)
  /\ UNCHANGED <<imageUrl, imageDims, crop, previewUrl, pixelatedColors, backgroundMode,
                 backgroundColor, scalingAlgorithm, matrixWidth, matrixHeight, revision,
                 refVars, pc, srcData, dst, pos, sample, reads, returned, error>>

NextLift ==
  \/ LiftStep
  \/ \E lift \in 0..LiftMax : LiftAgain(lift)

SpecLift == InitLift /\ [][NextLift]_vars

\* C11 - trueBlack lift monotonicity: for a fixed opaque pixel, a lift amount
\* of 0 leaves every channel equal to c, and going from one lift amount to a
\* larger or equal one in 0..127 never decreases a resulting channel value.
C11_LiftMonotone ==
  /\ [](pc = "present" /\ blackLift = 0 => resampled = returned)
  /\ [][(pc = "present" /\ pc' = "present" /\ blackLift <= blackLift')
          => \A ch \in 1..3 : resampled[1][ch] <= resampled'[1][ch]]_vars

\* C11 witness: channel 100 of an opaque pixel lifted by the largest amount,
\* 127 + 100 * 128 / 255 rounded = 177.
C11_Witness ==
  /\ pc = "present"
  /\ blackLift = LiftMax
  /\ returned = << <<100, 100, 100, 255>> >>
  /\ resampled = << <<177, 177, 177, 255>> >>

\* the preview frames that are pending
PendingPreviews == {f \in frames : f.kind = "preview"}

\* the buffer the preview callback with closure f computes
RenderOf(f) ==
  CHOOSE out \in
    {BlackLift(resample(src.data, src.w, src.h, f.dw, f.dh, f.algorithm, revision),
               f.mode, f.lift) :
       src \in {DrawSource(f.img, f.cropState, f.mode, f.color)}} : TRUE

\* the step runs the preview frame f (it is neither cancelled nor replaced)
RunsPreview(f) ==
  /\ f \in PendingPreviews
  /\ frames' = frames \ {f}
  /\ previewRaf' = previewRaf
  /\ imageUrl' = imageUrl

\* C17 - Most-recent-call-wins preview scheduling: at most one preview callback
\* is pending at any time and it is the one scheduled last, so a superseded
\* callback never runs; the callback that runs sets preview and grid to its own
\* render, and nothing else sets them, so once no callback is pending they are
\* those of the most recently scheduled render.
C17_MostRecentWins ==
  /\ [](Cardinality(PendingPreviews) <= 1)
  /\ [](\A f \in PendingPreviews : f.id = previewRaf)
  /\ [][\A f \in PendingPreviews :
          RunsPreview(f) =>
            /\ f.id = previewRaf
            /\ previewUrl' = RenderOf(f)
            /\ pixelatedColors' = GridOf(previewUrl')]_vars
  /\ [][(previewUrl' # previewUrl \/ pixelatedColors' # pixelatedColors) =>
          \/ \E f \in PendingPreviews : RunsPreview(f)
          \/ previewUrl' = NoPixels /\ pixelatedColors' = NoPixels]_vars

\* C17 witness: the preview was scheduled for the full 2 x 2 crop, the crop size
\* was changed to 1 and the preview scheduled again; no callback is pending and
\* the preview shown is the render of the 1 x 1 crop.
C17_Witness ==
  /\ imageUrl = Buffer(2, 2, <<White, Clear, HalfRed, Black>>)
  /\ crop # Null
  /\ crop.size = 1
  /\ cropRef = crop
  /\ previewRaf = 2
  /\ nextRaf = 3
  /\ frames = {}
  /\ ~effects
  /\ previewUrl = RenderOf(PreviewFrameOf(2, cropRef))

(***************************************************************************)
(* SpecRepeat: preview computations one after the other.  After a          *)
(* computation has presented its result the crop, the background controls  *)
(* or the algorithm change (or stay), the preview effect schedules the     *)
(* render and the next callback starts.  The locals of the finished        *)
(* callback (srcData, dst, pos, ...) are left as they were: the new         *)
(* callback has its own, assigned by its own steps.                         *)
(***************************************************************************)
MaxCalls == 2

InitRepeat ==
  /\ Init
  /\ imageUrl \in PatternSources
  /\ <<matrixWidth, matrixHeight>> \in ModalTargets

\* the crop, background or algorithm is set, the effect at lines 279-282 calls
\* schedulePreviewRender and the browser runs the requested frame
Rerender(size, bg, alg) ==
  /\ UNCHANGED appVars
  /\ pc = "done"
  /\ nextRaf <= MaxCalls
  /\ revision = "inline" => alg = "bilinear"
  /\ crop' = Crop(0, 0, size)
  /\ cropRef' = crop'
  /\ backgroundMode' = bg.mode
  /\ backgroundColor' = bg.color
  /\ blackLift' = bg.lift
  /\ scalingAlgorithm' = alg
  /\ previewRaf' = nextRaf
  /\ nextRaf' = nextRaf + 1
  /\ pc' = "draw"
  /\ UNCHANGED <<imageUrl, imageDims, previewUrl, pixelatedColors, matrixWidth,
                 matrixHeight, revision, srcData, dst, pos, sample, reads, returned,
                 resampled, error, imageDimsRef, dragState, movePending, moveRaf,
                 frames, effects>>

NextRepeat ==
  \/ Next
  \/ \E size \in {1, imageUrl.w}, bg \in BackgroundConfigs, alg \in Algorithms :
       Rerender(size, bg, alg)

SpecRepeat == InitRepeat /\ [][NextRepeat]_vars

\* the preview buffer as a function of the inputs of the computation alone
PreviewOf(img, cropState, dw, dh, alg, rev, mode, color, lift) ==
  CHOOSE out \in
    {BlackLift(resample(src.data, src.w, src.h, dw, dh, alg, rev), mode, lift) :
       src \in {DrawSource(img, cropState, mode, color)}} : TRUE

\* C18 - Determinism and statelessness: whatever computations ran before, the
\* preview presented is the function PreviewOf of the source pixels, crop,
\* target size, algorithm and background of this computation, and the grid is
\* the function GridOf of that preview; from its call to its return resample
\* leaves the source buffer as it was given.
C18_Deterministic ==
  /\ [](pc = "done" =>
          /\ previewUrl = PreviewOf(imageUrl, crop, matrixWidth, matrixHeight,
                                    scalingAlgorithm, revision, backgroundMode,
                                    backgroundColor, blackLift)
          /\ pixelatedColors = GridOf(previewUrl))
  /\ [][(pc \in {"resample", "loop"}) => (srcData' = srcData)]_vars

\* C18 witness: the third computation in a row has presented its result, a
\* Lanczos preview of the one-pixel crop of the 3 x 3 image over white.
C18_Witness ==
  /\ pc = "done"
  /\ previewRaf = MaxCalls
  /\ imageUrl.w = 3
  /\ crop.size = 1
  /\ scalingAlgorithm = "lanczos"
  /\ backgroundMode = "color"
  /\ Len(previewUrl) = 6

(***************************************************************************)
(* useLedApp: the LED colours, the matrix rotation and the eager output.   *)
(* The import modal is closed in the specifications of this part.  Of the  *)
(* output formats 'rgb' (its text is not modelled) and 'wled_udp' are      *)
(* modelled; of the wled_udp output the bytes that are base64-encoded into *)
(* the shell command.                                                      *)
(***************************************************************************)
clampChannel(value) == MathMax(0, MathMin(255, value))

\* sanitizeLedColors: for a negative expectedLength the list is not shorter,
\* and slice(0, expectedLength) drops that many entries from its end
sanitizeLedColors(colors, expectedLength) ==
  [i \in 1..(IF expectedLength < 0 THEN MathMax(Len(colors) + expectedLength, 0)
             ELSE expectedLength) |->
     IF i <= Len(colors) /\ Len(colors[i]) = 3
     THEN <<clampChannel(colors[i][1]), clampChannel(colors[i][2]),
            clampChannel(colors[i][3])>>
     ELSE <<0, 0, 0>>]

getLedCount(dt, ring, mw, mh, strip) ==
  IF dt = "ring" THEN ring ELSE IF dt = "strip" THEN strip ELSE mw * mh

\* colors.slice(from, to) for 0 <= from
Slice(colors, from, to) == SubSeq(colors, from + 1, MathMin(to, Len(colors)))

\* scopedColors.map(c => indices.map(idx => c[idx] ?? 0)).flat()
rgbPayload(colors) ==
  [k \in 1..(3 * Len(colors)) |-> colors[((k - 1) \div 3) + 1][((k - 1) % 3) + 1]]

MaxPerPacketDnrgb == 489

MaxPerPacketDrgb == 490

MaxStartIndex == 65535

\* mode of wled generate: anything but 'dnrgb' and 'hyperion' is 'drgb'
WledMode(cfg) == IF cfg.mode \in {"dnrgb", "hyperion"} THEN cfg.mode ELSE "drgb"

WledTimeout(cfg) == MathMax(0, MathMin(255, cfg.timeoutSeconds))

WledStartIndex(cfg) == MathMax(0, MathMin(MaxStartIndex, cfg.startIndex))

\* byteValues of wled generate, each clamped to 0..255
WledBytes(colors, cfg) ==
  LET mode == WledMode(cfg)
      startIndex == WledStartIndex(cfg)
      scopedColors ==
        IF mode = "dnrgb" THEN Slice(colors, startIndex, startIndex + MaxPerPacketDnrgb)
        ELSE IF mode = "drgb" THEN Slice(colors, 0, MaxPerPacketDrgb)
        ELSE colors
      header ==
        IF mode = "hyperion" THEN <<>>
        ELSE <<(IF mode = "dnrgb" THEN 4 ELSE 2), WledTimeout(cfg)>>
             \o (IF mode = "dnrgb"
                 THEN <<(startIndex \div 256) % 256, startIndex % 256>>
                 ELSE <<>>)
      byteValues == header \o rgbPayload(scopedColors)
  IN  [k \in 1..Len(byteValues) |-> clampChannel(byteValues[k])]

\* eagerOutputValue (useMemo): the output of the selected format for the
\* sanitised colours
EagerOutput(dt, ring, mw, mh, strip, colors, format, cfg) ==
  IF format = "wled_udp"
  THEN WledBytes(sanitizeLedColors(colors, getLedCount(dt, ring, mw, mh, strip)), cfg)
  ELSE NoBytes

\* the import modal closed
ModalClosed ==
  /\ imageUrl = Null
  /\ imageDims = Null
  /\ crop = Null
  /\ previewUrl = NoPixels
  /\ pixelatedColors = NoPixels
  /\ backgroundMode = "none"
  /\ backgroundColor = <<0, 0, 0>>
  /\ blackLift = 0
  /\ scalingAlgorithm = "lanczos"
  /\ revision = "imageProcessing"
  /\ cropRef = Null
  /\ imageDimsRef = Null
  /\ RefsAtRest
  /\ EngineIdle

\* what the handlers of useLedApp leave alone
ModalUntouched ==
  UNCHANGED <<imageUrl, imageDims, crop, previewUrl, pixelatedColors, backgroundMode,
              backgroundColor, blackLift, scalingAlgorithm, revision, engineVars,
              refVars>>

\* the render after a handler: the memo eagerOutputValue is computed again
\* a handler of useLedApp runs when the effects of the last render have run,
\* and its render is followed by the effects once the component is mounted
Committed ==
  /\ ~commit
  /\ commit' = (timer # "unset")
  /\ UNCHANGED <<rgb, hex, codecVars, isOpen, loading, historyVars, hash, hashInitialized,
                 rotation, showLabels, timer, params, calls, batching>>

Rerendered ==
  eagerOutputValue' = EagerOutput(displayType', ringLeds', matrixWidth', matrixHeight',
                                  stripLeds', ledColors', selectedFormat', formatConfigs')

\* handleDisplayTypeChange: the formats modelled are allowed for every display
\* type, so the selected format stays
handleDisplayTypeChange(next) ==
  /\ displayType' = next
  /\ UNCHANGED <<ringLeds, stripLeds, ledColors, selectedFormat, formatConfigs,
                 matrixWidth, matrixHeight>>
  /\ Rerendered
  /\ ModalUntouched
  /\ Committed

swapsSides(angle) == angle % 180 # 0

\* Mutant of RotatedIndex: for 90 degrees the column is mirrored in the width
\* instead of the height.
RotatedIndexWidth(angle, w, h, idx) ==
  LET x == idx % w
      y == idx \div w
      newW == IF swapsSides(angle) THEN h ELSE w
      newX == IF angle = 90 THEN w - 1 - y
              ELSE IF angle = 180 THEN w - 1 - x
              ELSE IF angle = 270 THEN y ELSE x
      newY == IF angle = 90 THEN x
              ELSE IF angle = 180 THEN h - 1 - y
              ELSE IF angle = 270 THEN w - 1 - x ELSE y
  IN  newY * newW + newX

\* newIdx of the cell idx = y * w + x
RotatedIndex(angle, w, h, idx) ==
  LET x == idx % w
      y == idx \div w
      newW == IF swapsSides(angle) THEN h ELSE w
      newX == IF angle = 90 THEN h - 1 - y
              ELSE IF angle = 180 THEN w - 1 - x
              ELSE IF angle = 270 THEN y ELSE x
      newY == IF angle = 90 THEN x
              ELSE IF angle = 180 THEN h - 1 - y
              ELSE IF angle = 270 THEN w - 1 - x ELSE y
  IN  newY * newW + newX

SetMax(S) == CHOOSE m \in S : \A n \in S : n <= m

\* rotated after the two loops: the array starts as newW * newH black cells,
\* the cells are assigned in the order of idx (a later assignment of the same
\* cell wins), an assignment past the end extends the array and leaves holes
RotatedColors(safeColors, angle, w, h) ==
  LET newW == IF swapsSides(angle) THEN h ELSE w
      newH == IF swapsSides(angle) THEN w ELSE h
      target == [idx \in 0..(w * h - 1) |-> RotatedIndex(angle, w, h, idx)]
      top == SetMax({newW * newH - 1} \cup {target[idx] : idx \in DOMAIN target})
  IN  [i \in 1..(top + 1) |->
         LET writers == {idx \in DOMAIN target : target[idx] = i - 1}
         IN  IF writers # {} THEN safeColors[SetMax(writers) + 1]
             ELSE IF i <= newW * newH THEN <<0, 0, 0>> ELSE NoPixel]

\* rotateMatrixPixels(angle)
rotateMatrixPixels(angle) ==
  /\ IF displayType # "matrix"
     THEN UNCHANGED <<matrixWidth, matrixHeight, ledColors>>
     ELSE /\ matrixWidth' = (IF swapsSides(angle) THEN matrixHeight ELSE matrixWidth)
          /\ matrixHeight' = (IF swapsSides(angle) THEN matrixWidth ELSE matrixHeight)
          /\ ledColors' =
               RotatedColors(
                 sanitizeLedColors(ledColors,
                                   getLedCount("matrix", ringLeds, matrixWidth,
                                               matrixHeight, stripLeds)),
                 angle, matrixWidth, matrixHeight)
  /\ UNCHANGED <<displayType, ringLeds, stripLeds, selectedFormat, formatConfigs>>
  /\ Rerendered
  /\ ModalUntouched
  /\ Committed

(***************************************************************************)
(* SpecRotate: the matrix rotations, from every matrix of up to            *)
(* MaxMatrix x MaxMatrix cells whose colour list is complete, one short or *)
(* one long, and with the display type switched in between.                *)
(***************************************************************************)
MaxMatrix == 3

\* n colours, all different
DistinctColors(n) == [i \in 1..n |-> <<i, (37 * i) % 256, 255 - i>>]

InitRotate ==
  /\ ModalClosed
  /\ SideAtRest
  /\ displayType = "matrix"
  /\ ringLeds = DEFAULT_RING_LED_COUNT
  /\ stripLeds = DEFAULT_STRIP_LED_COUNT
  /\ matrixWidth \in 1..MaxMatrix
  /\ matrixHeight \in 1..MaxMatrix
  /\ \E n \in {matrixWidth * matrixHeight - 1, matrixWidth * matrixHeight,
               matrixWidth * matrixHeight + 1} : ledColors = DistinctColors(n)
  /\ selectedFormat \in {"rgb", "wled_udp"}
  /\ formatConfigs = WledDefaultConfig
  /\ eagerOutputValue = EagerOutput(displayType, ringLeds, matrixWidth, matrixHeight,
                                    stripLeds, ledColors, selectedFormat, formatConfigs)

NextRotate ==
  \/ \E angle \in {90, 180, 270} : rotateMatrixPixels(angle)
  \/ \E next \in {"ring", "matrix", "strip"} : handleDisplayTypeChange(next)

SpecRotate == InitRotate /\ [][NextRotate]_vars

\* the colours of the matrix as displayed
Grid(colors, w, h) == sanitizeLedColors(colors, w * h)

\* how many cells of the list have the colour c
Occurrences(colors, c) == Cardinality({i \in DOMAIN colors : colors[i] = c})

\* the matrix {w, h, colors} after rotateMatrixPixels(angle)
Turned(m, angle) ==
  [w |-> IF swapsSides(angle) THEN m.h ELSE m.w,
   h |-> IF swapsSides(angle) THEN m.w ELSE m.h,
   colors |-> RotatedColors(Grid(m.colors, m.w, m.h), angle, m.w, m.h)]

\* C19 - rotateMatrixPixels is a rotation of the pixel grid: a step of it on a
\* matrix swaps width and height for 90 and 270 degrees and keeps them for 180,
\* the new colours are a permutation of the grid's (as many cells, each colour
\* as often as before); from every matrix, 90 four times, 180 twice and 90
\* then 270 give back the grid and its dimensions; for another display type the
\* step changes nothing.
C19_Rotation ==
  /\ [][\A angle \in {90, 180, 270} :
          rotateMatrixPixels(angle) =>
            IF displayType = "matrix"
            THEN /\ matrixWidth' = (IF angle = 180 THEN matrixWidth ELSE matrixHeight)
                 /\ matrixHeight' = (IF angle = 180 THEN matrixHeight ELSE matrixWidth)
                 /\ Len(ledColors') = matrixWidth * matrixHeight
                 /\ \A c \in {ledColors'[i] : i \in DOMAIN ledColors'}
                          \cup {Grid(ledColors, matrixWidth, matrixHeight)[i] :
                                  i \in 1..(matrixWidth * matrixHeight)} :
                      Occurrences(ledColors', c)
                        = Occurrences(Grid(ledColors, matrixWidth, matrixHeight), c)
            ELSE UNCHANGED vars]_vars
  /\ [](LET m == [w |-> matrixWidth, h |-> matrixHeight, colors |-> ledColors]
            g == [m EXCEPT !.colors = Grid(ledColors, matrixWidth, matrixHeight)]
        IN  /\ Turned(Turned(Turned(Turned(m, 90), 90), 90), 90) = g
            /\ Turned(Turned(m, 180), 180) = g
            /\ Turned(Turned(m, 90), 270) = g)

\* C19 witness: a 2 x 3 matrix that came out of a rotation of the 3 x 2 matrix
\* of six different colours by 90 degrees: the first row of the 3 x 2 matrix
\* is the last column.
C19_Witness ==
  /\ displayType = "matrix"
  /\ matrixWidth = 2
  /\ matrixHeight = 3
  /\ ledColors = [i \in 1..6 |-> DistinctColors(6)[<<4, 1, 5, 2, 6, 3>>[i]]]

(***************************************************************************)
(* SpecWled: the wled_udp output of a strip, for LED counts around the     *)
(* packet limits and configurations inside and outside their ranges.       *)
(***************************************************************************)
LedCounts == {3, MaxPerPacketDrgb, MaxPerPacketDrgb + 1}

WledConfigs ==
  {[mode |-> m, startIndex |-> st, timeoutSeconds |-> t] :
     m \in {"drgb", "dnrgb", "hyperion"},
     st \in {-1, 2, 300, MaxStartIndex + 1},
     t \in {-1, 1, 256}}

\* n colours that tell the LEDs apart
StripColors(n) == [i \in 1..n |-> <<i % 256, (7 * i) % 256, 255 - (i % 256)>>]

InitWled ==
  /\ ModalClosed
  /\ SideAtRest
  /\ displayType = "strip"
  /\ ringLeds = DEFAULT_RING_LED_COUNT
  /\ stripLeds \in LedCounts
  /\ matrixWidth = 8
  /\ matrixHeight = 8
  /\ ledColors = StripColors(stripLeds)
  /\ selectedFormat = "wled_udp"
  /\ formatConfigs = WledDefaultConfig
  /\ eagerOutputValue = EagerOutput(displayType, ringLeds, matrixWidth, matrixHeight,
                                    stripLeds, ledColors, selectedFormat, formatConfigs)

\* onChange of the format's config panel: setFormatConfigs
setFormatConfigs(cfg) ==
  /\ formatConfigs' = cfg
  /\ UNCHANGED <<displayType, ringLeds, stripLeds, ledColors, selectedFormat,
                 matrixWidth, matrixHeight>>
  /\ Rerendered
  /\ ModalUntouched
  /\ Committed

\* onStripLedsChange: setStripLeds
setStripLeds(n) ==
  /\ displayType = "strip"
  /\ stripLeds' = n
  /\ UNCHANGED <<displayType, ringLeds, ledColors, selectedFormat, formatConfigs,
                 matrixWidth, matrixHeight>>
  /\ Rerendered
  /\ ModalUntouched
  /\ Committed

\* handleSelectFormat
handleSelectFormat(next) ==
  /\ selectedFormat' = next
  /\ UNCHANGED <<displayType, ringLeds, stripLeds, ledColors, formatConfigs,
                 matrixWidth, matrixHeight>>
  /\ Rerendered
  /\ ModalUntouched
  /\ Committed

NextWled ==
  \/ \E cfg \in WledConfigs : setFormatConfigs(cfg)
  \/ \E n \in LedCounts : setStripLeds(n)
  \/ \E next \in {"rgb", "wled_udp"} : handleSelectFormat(next)

SpecWled == InitWled /\ [][NextWled]_vars

\* the colours handed to the formatter
SafeColors ==
  sanitizeLedColors(ledColors,
                    getLedCount(displayType, ringLeds, matrixWidth, matrixHeight, stripLeds))

\* the R, G, B values of the LEDs from + 1 .. to of the list, in order
RgbOf(colors, from, to) ==
  [k \in 1..(3 * (to - from)) |-> colors[from + ((k - 1) \div 3) + 1][((k - 1) % 3) + 1]]

\* C20 - WLED UDP packet layout: DRGB is 0x02, the timeout, then the RGB bytes
\* of all LEDs; DNRGB is 0x04, the timeout, the start index as two bytes
\* big-endian, then the RGB bytes of at most 489 LEDs from the start index;
\* Hyperion is the RGB bytes of all LEDs; every byte is in 0..255, the timeout
\* clamped to 0..255 and the start index to 0..65535.
C20_PacketLayout ==
  selectedFormat = "wled_udp" =>
    LET n == Len(SafeColors)
        t == clamp(formatConfigs.timeoutSeconds, 0, 255)
        st == clamp(formatConfigs.startIndex, 0, 65535)
        last == MathMax(st, MathMin(n, st + 489))
    IN  /\ \A k \in DOMAIN eagerOutputValue : eagerOutputValue[k] \in 0..255
        /\ formatConfigs.mode = "drgb" =>
             eagerOutputValue = <<2, t>> \o RgbOf(SafeColors, 0, n)
        /\ formatConfigs.mode = "dnrgb" =>
             eagerOutputValue = <<4, t, st \div 256, st % 256>> \o RgbOf(SafeColors, st, last)
        /\ formatConfigs.mode = "hyperion" =>
             eagerOutputValue = RgbOf(SafeColors, 0, n)

(***************************************************************************)
(* colorUtils: hexToRgb and rgbToHex.  A string is the sequence of its     *)
(* characters; a channel handed to rgbToHex is a number Num(n, d).         *)
(***************************************************************************)
UpperDigits ==
  <<"0", "1", "2", "3", "4", "5", "6", "7", "8", "9", "A", "B", "C", "D", "E", "F">>

LowerDigits ==
  <<"0", "1", "2", "3", "4", "5", "6", "7", "8", "9", "a", "b", "c", "d", "e", "f">>

\* the character class [0-9A-Fa-f]
IsHexDigit(ch) == \E i \in 1..16 : UpperDigits[i] = ch \/ LowerDigits[i] = ch

\* parseInt of one hex digit
DigitValue(ch) == (CHOOSE i \in 1..16 : UpperDigits[i] = ch \/ LowerDigits[i] = ch) - 1

\* Number.prototype.toString(16) of n >= 0
RECURSIVE ToString16(_)
ToString16(n) ==
  IF n < 16 THEN <<LowerDigits[n + 1]>>
  ELSE ToString16(n \div 16) \o <<LowerDigits[(n % 16) + 1]>>

toUpperCase(str) ==
  [i \in 1..Len(str) |->
     IF \E k \in 11..16 : LowerDigits[k] = str[i]
     THEN UpperDigits[CHOOSE k \in 11..16 : LowerDigits[k] = str[i]]
     ELSE str[i]]

\* Math.max(0, Math.min(255, Math.round(val))) as the shifts of rgbToHex see it:
\* Infinity gives 255, -Infinity 0, and NaN stays NaN, which a shift reads as 0
ChannelByte(val) ==
  IF val[2] = 0 THEN (IF val[1] > 0 THEN 255 ELSE 0)
  ELSE clamp(MathRound(val[1], val[2]), 0, 255)

\* Mutant of rgbToHex: without the bit 1 << 24 and the slice that pad the
\* string to six digits.
rgbToHexNoPad(triple) ==
  toUpperCase(ToString16(ChannelByte(triple[1]) * 65536 + ChannelByte(triple[2]) * 256
                         + ChannelByte(triple[3])))

\* rgbToHex: the three bytes do not overlap, so the bitwise or is their sum
rgbToHex(triple) ==
  toUpperCase(Tail(ToString16(16777216 + ChannelByte(triple[1]) * 65536
                              + ChannelByte(triple[2]) * 256 + ChannelByte(triple[3]))))

hexToRgb(str) ==
  LET sanitizedHex == IF Len(str) > 0 /\ str[1] = "#" THEN Tail(str) ELSE str
  IN  IF ~(Len(sanitizedHex) = 6 /\ \A i \in 1..6 : IsHexDigit(sanitizedHex[i]))
      THEN <<0, 0, 0>>
      ELSE [c \in 1..3 |-> 16 * DigitValue(sanitizedHex[2 * c - 1])
                           + DigitValue(sanitizedHex[2 * c])]

(***************************************************************************)
(* SpecHex: calls of rgbToHex and hexToRgb, each on what the other         *)
(* returned, from triples of channels inside and outside 0..255 (halves,   *)
(* infinities and NaN among them) and from well-formed and malformed       *)
(* strings.                                                                *)
(***************************************************************************)
ChannelInputs ==
  {Num(-3, 2), Num(-1, 2), Num(0, 1), Num(1, 2), Num(15, 1), Num(16, 1), Num(255, 2),
   Num(509, 2), Num(255, 1), Num(511, 2), Num(300, 1), Num(1, 0), Num(-1, 0), Num(0, 0)}

HexInputs ==
  {<<>>, <<"#">>, <<"F", "F", "F">>, <<"#", "1", "2", "3", "4", "5">>,
   <<"#", "F", "F", "8", "0", "0", "0">>, <<"f", "f", "0", "0", "a", "B">>,
   <<"G", "G", "0", "0", "0", "0">>, <<"#", "#", "F", "F", "0", "0", "0", "0">>,
   <<"F", "F", "0", "0", "0", "0", "#">>, <<" ", "F", "F", "0", "0", "0", "0">>,
   <<"1", "2", "3", "4", "5", "6", "7">>, <<"0", "x", "F", "F", "0", "0">>}

InitHex ==
  /\ ModalClosed
  /\ displayType = "ring"
  /\ ringLeds = DEFAULT_RING_LED_COUNT
  /\ stripLeds = DEFAULT_STRIP_LED_COUNT
  /\ matrixWidth = 8
  /\ matrixHeight = 8
  /\ ledColors = createBlankColors(DEFAULT_RING_LED_COUNT)
  /\ selectedFormat = "rgb"
  /\ formatConfigs = WledDefaultConfig
  /\ eagerOutputValue = NoBytes
  /\ HashAtRest
  /\ CodecAtRest
  /\ OpenAtRest
  /\ HistoryAtRest
  /\ \/ rgb \in ChannelInputs \X ChannelInputs \X ChannelInputs /\ hex = <<>>
     \/ rgb = <<Num(0, 1), Num(0, 1), Num(0, 1)>> /\ hex \in HexInputs

\* hex = rgbToHex(rgb)
CallRgbToHex ==
  /\ hex' = rgbToHex(rgb)
  /\ UNCHANGED <<modalVars, engineVars, refVars, displayType, ringLeds, stripLeds,
                 ledColors, selectedFormat, formatConfigs, eagerOutputValue, rgb,
                 codecVars, isOpen, loading, historyVars, hashVars>>

\* rgb = hexToRgb(hex)
CallHexToRgb ==
  /\ rgb' = [c \in 1..3 |-> Num(hexToRgb(hex)[c], 1)]
  /\ UNCHANGED <<modalVars, engineVars, refVars, displayType, ringLeds, stripLeds,
                 ledColors, selectedFormat, formatConfigs, eagerOutputValue, hex,
                 codecVars, isOpen, loading, historyVars, hashVars>>

NextHex == CallRgbToHex \/ CallHexToRgb

SpecHex == InitHex /\ [][NextHex]_vars

\* six characters, each of 0-9 or A-F
SixUpperDigits(str) ==
  Len(str) = 6 /\ \A i \in 1..6 : \E k \in 1..16 : UpperDigits[k] = str[i]

\* six hex digits with an optional leading '#'
WellFormedHex(str) ==
  \/ Len(str) = 6 /\ \A i \in 1..6 : IsHexDigit(str[i])
  \/ Len(str) = 7 /\ str[1] = "#" /\ \A i \in 2..7 : IsHexDigit(str[i])

\* the channel rounded and clamped to 0..255
RoundedClamped(val) ==
  IF val[2] = 0 THEN (IF val[1] > 0 THEN 255 ELSE 0)
  ELSE MathMax(0, MathMin(255, (2 * val[1] + val[2]) \div (2 * val[2])))

\* C21 - Hex colour round-trip: for every triple of numbers (NaN channels
\* apart, which have no rounded value) hexToRgb(rgbToHex(c)) is c with each
\* channel rounded and clamped to 0..255; rgbToHex returns six upper-case hex
\* digits for every triple; hexToRgb returns [0, 0, 0] for every string that is
\* not six hex digits with an optional leading '#'.
C21_HexRoundTrip ==
  /\ [](SixUpperDigits(rgbToHex(rgb)))
  /\ []((\A c \in 1..3 : rgb[c] # Num(0, 0)) =>
          hexToRgb(rgbToHex(rgb)) = [c \in 1..3 |-> RoundedClamped(rgb[c])])
  /\ [](~WellFormedHex(hex) => hexToRgb(hex) = <<0, 0, 0>>)
  /\ [][hex' # hex => SixUpperDigits(hex')]_vars
  /\ [][(rgb' # rgb /\ SixUpperDigits(hex)) =>
          \A c \in 1..3 : rgb'[c][2] = 1 /\ rgb'[c][1] \in 0..255]_vars

\* C21 witness: [300, 127.5, -0.5] was converted to 'FF8000' and back to
\* [255, 128, 0].
C21_Witness ==
  /\ hex = <<"F", "F", "8", "0", "0", "0">>
  /\ rgb = <<Num(255, 1), Num(128, 1), Num(0, 1)>>

\* k = clamp(round(cn * 255 / an), 0, 255) for an > 0: a quotient of 255 or more
\* gives 255, one of 0 or less gives 0; in between k is the integer with
\* k - 1/2 <= cn * 255 / an < k + 1/2 (by the long division where the products
\* would leave the integer range)
RoundsTo(k, cn, an) ==
  IF cn >= an THEN k = 255
  ELSE IF cn <= 0 THEN k = 0
  ELSE IF an < 2097152
       THEN k \in 0..255 /\ (2 * k - 1) * an <= 510 * cn /\ 510 * cn < (2 * k + 1) * an
       ELSE k = (MulDivMod(cn, 510, an)[1] + 1) \div 2

\* the step is one iteration of resample's main loop
CellStep == pc = "loop" /\ pos' = pos + 1

\* C22 - Un-premultiply: the pixel setPixel stores for the kernel sample
\* (r, g, b, a) has each colour channel clamp(round(channel * 255 / a), 0, 255)
\* when a > 0 and is (0, 0, 0) with alpha 0 when a <= 0 (or the sample is NaN);
\* every stored value is a byte, never NaN.
C22_Unpremultiply ==
  [][CellStep =>
       LET px == dst'[pos + 1]
       IN  /\ \A c \in 1..4 : px[c] \in 0..255
           /\ IF ~sample'.nan /\ sample'.n[4] > 0
              THEN \A c \in 1..3 : RoundsTo(px[c], sample'.n[c], sample'.n[4])
              ELSE px = <<0, 0, 0, 0>>]_vars

\* C22 witness: a Lanczos or bicubic cell whose sample has a negative alpha
\* was stored as (0, 0, 0, 0), after a cell of partial alpha whose colour was
\* scaled up.
C22_Witness ==
  /\ pc = "loop"
  /\ pos >= 2
  /\ ~sample.nan
  /\ sample.n[4] < 0
  /\ dst[pos] = <<0, 0, 0, 0>>
  /\ \E p \in 1..(pos - 1) : dst[p][4] \in 1..254 /\ dst[p][1] > 0

(***************************************************************************)
(* SpecTaps: the accumulation and normalisation of one cell for weights    *)
(* that the kernels' geometry does not produce: the taps of the cell are   *)
(* drawn (no tap at all, weights that are all zero or cancel to zero,      *)
(* among ordinary ones), then the sample is taken and stored as the one    *)
(* cell of a 1 x 1 target, and the callback runs on.                       *)
(***************************************************************************)
\* box footprints: every tap counts once
BoxTapInputs ==
  {<<>>,
   <<Tap(0, 0, 0, 1)>>,
   <<Tap(0, 0, 0, 1), Tap(1, 0, 4, 1)>>,
   <<Tap(0, 0, 0, 1), Tap(1, 0, 4, 1), Tap(0, 1, 8, 1), Tap(1, 1, 12, 1)>>}

\* weighted neighbourhoods, the weights in units of the kernel's denominator
WeightedTapInputs ==
  {<<Tap(0, 0, 0, 0), Tap(1, 0, 4, 0)>>,
   <<Tap(0, 0, 0, 0), Tap(1, 0, 4, 0), Tap(0, 1, 8, 0), Tap(1, 1, 12, 0)>>,
   <<Tap(0, 0, 0, 256), Tap(1, 0, 4, -256)>>,
   <<Tap(0, 0, 0, -300), Tap(1, 0, 4, 100), Tap(0, 1, 8, 100), Tap(1, 1, 12, 100)>>,
   <<Tap(0, 0, 0, 128), Tap(1, 1, 12, -128)>>,
   <<Tap(0, 0, 0, 256)>>,
   <<Tap(0, 0, 0, 300), Tap(1, 0, 4, -44)>>,
   <<Tap(0, 0, 0, -100), Tap(1, 0, 4, 50)>>}

InitTaps ==
  /\ AppAtRest
  /\ imageUrl \in {img \in Sources : img.w >= 2}
  /\ imageDims = [w |-> imageUrl.w, h |-> imageUrl.h]
  /\ crop = Crop(0, 0, imageUrl.w)
  /\ previewUrl = NoPixels
  /\ pixelatedColors = NoPixels
  /\ backgroundMode = "none"
  /\ backgroundColor = <<0, 0, 0>>
  /\ blackLift = 0
  /\ revision = "imageProcessing"
  /\ matrixWidth = 1
  /\ matrixHeight = 1
  /\ pc = "loop"
  /\ srcData = DrawSource(imageUrl, crop, backgroundMode, backgroundColor)
  /\ dst = ZeroPixels(1)
  /\ pos = 0
  /\ sample = Null
  /\ \/ scalingAlgorithm = "box" /\ reads \in BoxTapInputs
     \/ scalingAlgorithm \in {"bicubic", "lanczos"} /\ reads \in WeightedTapInputs
  /\ returned = NoPixels
  /\ resampled = NoPixels
  /\ error = "none"
  /\ cropRef = crop
  /\ imageDimsRef = imageDims
  /\ RefsAtRest

\* the sample of the drawn taps, then setPixel
SampleTaps ==
  /\ UNCHANGED appVars
  /\ pc = "loop"
  /\ pos = 0
  /\ \E s \in {KernelSample(premult, reads, scalingAlgorithm, matrixWidth, matrixHeight) :
                 premult \in {Premultiply(srcData.data)}} :
       /\ sample' = s
       /\ dst' = [dst EXCEPT ![1] = setPixel(s)]
  /\ pos' = 1
  /\ UNCHANGED <<modalVars, refVars, pc, srcData, reads, returned, resampled, error>>

NextTaps ==
  \/ SampleTaps
  \/ ResampleReturn
  \/ LiftStep
  \/ Present

SpecTaps == InitTaps /\ [][NextTaps]_vars

Quiescent == frames = {} /\ ~effects /\ ~dragState.active

MaxLoads == 1

\* loadFromBlob of an SVG blob, up to its first await: paste and file input
\* reach it while the modal is open
loadFromBlobSvg(img) ==
  /\ isOpen
  /\ ~effects
  /\ Cardinality(loading) < MaxLoads
  /\ loading' = loading \cup {img}
  /\ UNCHANGED <<modalVars, engineVars, refVars, besideModal, isOpen>>

\* loadFromBlob after its awaits: setImageUrl(url), resetState()
loadFromBlobResume(img) ==
  /\ img \in loading
  /\ ~effects
  /\ loading' = loading \ {img}
  /\ imageUrl' = img
  /\ ResetCells
  /\ cropRef' = Null
  /\ imageDimsRef' = Null
  /\ effects' = TRUE
  /\ UNCHANGED <<matrixWidth, matrixHeight, revision, engineVars,
                 dragState, movePending, moveRaf, previewRaf, frames, nextRaf,
                 besideModal, isOpen>>

NextClose ==
  \/ onOpenImageImport
  \/ \E img \in ModalImages : loadFromBlob(img)
  \/ \E img \in ModalImages : loadFromBlobSvg(img)
  \/ \E img \in ModalImages : loadFromBlobResume(img)
  \/ handleImageLoad
  \/ RunEffects
  \/ PreviewFrame
  \/ handleClose

SpecClose == InitModal /\ [][NextClose]_vars

\* the state resetState and handleClose leave
ResetState ==
  /\ imageDims = Null
  /\ crop = Null
  /\ previewUrl = NoPixels
  /\ pixelatedColors = NoPixels

\* C25: while the modal is closed it holds no image and is in its reset
\* state, whatever load was in flight when handleClose ran
C25_CloseIsFinal == ~isOpen => (imageUrl = Null /\ ResetState)


(***************************************************************************)
(* SpecHistory: saving and deleting designs.  handleSaveToHistory awaits   *)
(* getSummary between reading the state and writing the history: it is two *)
(* steps, the call and the continuation after the await.  An entry is its  *)
(* timestamp; the clock advances between two entries.                      *)
(***************************************************************************)
\* the saves that may await their summary at once
MaxSaves == 2

\* the entries stamped in a run
MaxEntries == 4

\* what saving and deleting leave alone
besideHistory ==
  <<modalVars, engineVars, refVars, ledVars, rgb, hex, codecVars, isOpen, loading,
    hashVars>>

InitHistory ==
  /\ AppAtRest
  /\ matrixWidth = 1
  /\ matrixHeight = 1
  /\ ModalClosed

RemoveAt(seq, i) == [k \in 1..(Len(seq) - 1) |-> IF k < i THEN seq[k] ELSE seq[k + 1]]

\* handleSaveToHistory up to await getSummary: the closure holds the history
\* of the render that created it
handleSaveToHistory ==
  /\ Len(saves) < MaxSaves
  /\ now + Len(saves) <= MaxEntries
  /\ saves' = Append(saves, history)
  /\ UNCHANGED <<history, led_history, now, deleted, besideHistory>>

\* handleSaveToHistory after the await: [newHistoryEntry, ...history] with the
\* history of the closure, setHistory and localStorage.setItem
handleSaveToHistoryResume(i) ==
  /\ i \in 1..Len(saves)
  /\ LET newHistoryEntry == [timestamp |-> now]
         updatedHistory  == <<newHistoryEntry>> \o saves[i]
     IN  /\ history' = updatedHistory
         /\ led_history' = updatedHistory
  /\ saves' = RemoveAt(saves, i)
  /\ now' = now + 1
  /\ UNCHANGED <<deleted, besideHistory>>

\* history.filter(entry => entry.timestamp !== timestamp)
FilterOut(list, timestamp) ==
  SelectSeq(list, LAMBDA entry : entry.timestamp # timestamp)

handleDeleteFromHistory(timestamp) ==
  /\ \E k \in 1..Len(history) : history[k].timestamp = timestamp
  /\ LET updatedHistory == FilterOut(history, timestamp)
     IN  /\ history' = updatedHistory
         /\ led_history' = updatedHistory
  /\ deleted' = deleted \cup {timestamp}
  /\ UNCHANGED <<saves, now, besideHistory>>

NextHistory ==
  \/ handleSaveToHistory
  \/ \E i \in 1..MaxSaves : handleSaveToHistoryResume(i)
  \/ \E timestamp \in 1..MaxEntries : handleDeleteFromHistory(timestamp)

SpecHistory == InitHistory /\ [][NextHistory]_vars

\* the entry stamped timestamp is in the list
Holds(list, timestamp) == \E k \in 1..Len(list) : list[k].timestamp = timestamp

\* C26: an entry deleted with handleDeleteFromHistory is in neither the
\* history nor the stored list in any later state, and the stored list equals
\* the history after every save or delete
C26_DeletedStayDeleted ==
  /\ led_history = history
  /\ \A timestamp \in deleted :
       ~Holds(history, timestamp) /\ ~Holds(led_history, timestamp)

(***************************************************************************)
(* SpecHash: the two hash effects of useLedApp.  The load effect reads the *)
(* hash at mount and defers the setter calls to a timeout; the write       *)
(* effect runs after every render.  Whether the setter calls of a timeout  *)
(* are batched into one render depends on the React root, so both happen:  *)
(* without batching every setter call is a render of its own, followed by  *)
(* its effects.  A parameter is a string of characters, the colours        *)
(* parameter the list of its comma-separated items.                        *)
(***************************************************************************)
DEFAULT_MATRIX_WIDTH == 8

DEFAULT_MATRIX_HEIGHT == 8

Digits == <<"0", "1", "2", "3", "4", "5", "6", "7", "8", "9">>

IsDigit(ch) == \E i \in 1..10 : Digits[i] = ch

\* the value of the decimal digits str
RECURSIVE DecimalValue(_)
DecimalValue(str) ==
  IF str = <<>> THEN 0
  ELSE 10 * DecimalValue(SubSeq(str, 1, Len(str) - 1))
       + (CHOOSE i \in 1..10 : Digits[i] = str[Len(str)]) - 1

\* the longest prefix of str made of digits
DigitPrefix(str) ==
  LET n == IF \E k \in 1..Len(str) : ~IsDigit(str[k])
           THEN (CHOOSE k \in 1..Len(str) :
                   ~IsDigit(str[k]) /\ \A j \in 1..(k - 1) : IsDigit(str[j])) - 1
           ELSE Len(str)
  IN  SubSeq(str, 1, n)

\* Number.parseInt(value, 10) and Number.parseFloat(value) of a string with an
\* optional sign, digits and then anything but '.', 'e' or a digit; NaN is
\* <<FALSE, 0>>
ParseNumber(str) ==
  LET negative == Len(str) > 0 /\ str[1] = "-"
      body     == IF negative THEN Tail(str) ELSE str
      digits   == DigitPrefix(body)
  IN  IF digits = <<>> THEN <<FALSE, 0>>
      ELSE <<TRUE, IF negative THEN 0 - DecimalValue(digits) ELSE DecimalValue(digits)>>

parsePositiveInt(value, fallback) ==
  LET parsed == ParseNumber(value)
  IN  IF parsed[1] /\ parsed[2] > 0 THEN parsed[2] ELSE fallback

parseNumber(value, fallback) ==
  LET parsed == ParseNumber(value)
  IN  IF parsed[1] THEN parsed[2] ELSE fallback

\* Number.prototype.toString() of an integer
RECURSIVE ToString10(_)
ToString10(n) ==
  IF n < 0 THEN <<"-">> \o ToString10(0 - n)
  ELSE IF n < 10 THEN <<Digits[n + 1]>>
  ELSE ToString10(n \div 10) \o <<Digits[(n % 10) + 1]>>

\* colorsParam ? colorsParam.split(',').map(hexToRgb) : undefined, the
\* undefined being sanitised like the empty list
ParsedColors(colorsParam) == [i \in 1..Len(colorsParam) |-> hexToRgb(colorsParam[i])]

\* Mutant of LoadCalls: setHashInitialized(true) is called first.
LoadCallsInitFirst(p) ==
  LET type == IF p.type = "" THEN "ring" ELSE p.type
  IN  <<[cell |-> "hashInitialized", value |-> TRUE]>>
      \o (IF type \in {"ring", "matrix", "strip"}
          THEN <<[cell |-> "displayType", value |-> type],
                 [cell |-> "rotation", value |-> parseNumber(p.rotation, 0)]>>
          ELSE <<>>)

\* the setter calls of the deferred callback of the load effect, in order
LoadCalls(p) ==
  LET type     == IF p.type = "" THEN "ring" ELSE p.type
      ringLedCount == parsePositiveInt(p.leds, DEFAULT_RING_LED_COUNT)
      parsedWidth  == parsePositiveInt(p.width, DEFAULT_MATRIX_WIDTH)
      parsedHeight == parsePositiveInt(p.height, DEFAULT_MATRIX_HEIGHT)
      parsedStrip  == parsePositiveInt(p.leds, DEFAULT_STRIP_LED_COUNT)
      sizes    == IF type = "ring"
                  THEN <<[cell |-> "ringLeds", value |-> ringLedCount]>>
                  ELSE IF type = "matrix"
                  THEN <<[cell |-> "matrixWidth", value |-> parsedWidth],
                         [cell |-> "matrixHeight", value |-> parsedHeight]>>
                  ELSE <<[cell |-> "stripLeds", value |-> parsedStrip]>>
      count    == IF type = "ring" THEN ringLedCount
                  ELSE IF type = "matrix" THEN parsedWidth * parsedHeight
                  ELSE parsedStrip
  IN  (IF type \in {"ring", "matrix", "strip"}
       THEN <<[cell |-> "displayType", value |-> type]>> \o sizes
            \o <<[cell |-> "ledColors",
                  value |-> sanitizeLedColors(ParsedColors(p.colors), count)],
                 [cell |-> "rotation", value |-> parseNumber(p.rotation, 0)],
                 [cell |-> "showLabels", value |-> (p.labels = "true")]>>
       ELSE <<>>)
      \o <<[cell |-> "hashInitialized", value |-> TRUE]>>

\* the value of a state cell after the setter calls from + 1 .. to of list
After(list, from, to, cell, old) ==
  LET made == {k \in (from + 1)..to : list[k].cell = cell}
  IN  IF made = {} THEN old
      ELSE list[CHOOSE k \in made : \A j \in made : j <= k].value

\* the parameters the write effect puts into the hash
FormatHash(dt, ring, mw, mh, strip, colors, rot, labels) ==
  [type     |-> dt,
   leds     |-> IF dt = "ring" THEN ToString10(ring)
                ELSE IF dt = "strip" THEN ToString10(strip) ELSE <<>>,
   width    |-> IF dt = "matrix" THEN ToString10(mw) ELSE <<>>,
   height   |-> IF dt = "matrix" THEN ToString10(mh) ELSE <<>>,
   rotation |-> ToString10(rot),
   labels   |-> IF labels THEN "true" ELSE "false",
   colors   |-> LET colorsForHash ==
                      sanitizeLedColors(colors, getLedCount(dt, ring, mw, mh, strip))
                IN  [i \in 1..Len(colorsForHash) |->
                       rgbToHex(<<Num(colorsForHash[i][1], 1),
                                  Num(colorsForHash[i][2], 1),
                                  Num(colorsForHash[i][3], 1)>>)]]

\* the hash of the current state
CurrentHash ==
  FormatHash(displayType, ringLeds, matrixWidth, matrixHeight, stripLeds, ledColors,
             rotation, showLabels)

\* the hash of a 2 x 1 matrix with a colour too many
MatrixHash ==
  [NoParams EXCEPT !.type = "matrix", !.width = <<"2">>, !.height = <<"1">>,
                   !.rotation = <<"9", "0">>, !.labels = "false",
                   !.colors = <<<<"0", "0", "F", "F", "0", "0">>,
                                <<"#", "1", "2">>,
                                <<"0", "0", "0", "0", "F", "F">>>>]

\* the hashes the page is opened with
InitialHashes ==
  {NoParams,
   [NoParams EXCEPT !.type = "ring", !.leds = <<"2">>,
                    !.colors = <<<<"F", "F", "0", "0", "0", "0">>>>],
   [NoParams EXCEPT !.type = "ring", !.leds = <<"0">>, !.labels = "true"],
   MatrixHash,
   [NoParams EXCEPT !.type = "matrix", !.width = <<"x">>, !.height = <<"-", "1">>],
   [NoParams EXCEPT !.type = "strip", !.leds = <<"3", "p", "x">>,
                    !.rotation = <<"a">>, !.labels = "true"],
   [NoParams EXCEPT !.type = "bogus", !.leds = <<"2">>, !.rotation = <<"9", "0">>]}

\* what the hash effects leave alone
besideHash ==
  <<imageUrl, imageDims, crop, previewUrl, pixelatedColors, backgroundMode,
    backgroundColor, blackLift, scalingAlgorithm, revision, engineVars, refVars,
    selectedFormat, formatConfigs, eagerOutputValue, rgb, hex, codecVars, isOpen,
    loading, historyVars>>

\* useLedApp as useState leaves it
Defaults ==
  /\ ModalClosed
  /\ displayType = "ring"
  /\ ringLeds = DEFAULT_RING_LED_COUNT
  /\ stripLeds = DEFAULT_STRIP_LED_COUNT
  /\ matrixWidth = DEFAULT_MATRIX_WIDTH
  /\ matrixHeight = DEFAULT_MATRIX_HEIGHT
  /\ ledColors = sanitizeLedColors(<<>>, DEFAULT_RING_LED_COUNT)
  /\ selectedFormat = "rgb"
  /\ formatConfigs = WledDefaultConfig
  /\ eagerOutputValue = NoBytes
  /\ rgb = <<Num(0, 1), Num(0, 1), Num(0, 1)>>
  /\ hex = <<>>
  /\ CodecAtRest
  /\ OpenAtRest
  /\ HistoryAtRest
  /\ hashInitialized = FALSE
  /\ rotation = 0
  /\ showLabels = TRUE
  /\ calls = 0
  /\ commit = FALSE

InitHash ==
  /\ Defaults
  /\ hash \in InitialHashes
  /\ timer = "unset"
  /\ params = NoParams
  /\ batching \in BOOLEAN

\* the effects of the first render: the load effect reads the hash and sets
\* the timeout; the write effect returns, hashInitialized being false
MountEffects ==
  /\ timer = "unset"
  /\ timer' = "set"
  /\ params' = hash
  /\ UNCHANGED <<hash, hashInitialized, rotation, showLabels, calls, batching, commit,
                 displayType, ringLeds, stripLeds, matrixWidth, matrixHeight,
                 ledColors, besideHash>>

\* the deferred callback of the load effect: all its setter calls in one
\* render when React batches them, else the next one
LoadCallback ==
  /\ timer \in {"set", "running"}
  /\ ~commit
  /\ LET list == LoadCalls(params)
         to   == IF batching THEN Len(list) ELSE calls + 1
     IN  /\ displayType' = After(list, calls, to, "displayType", displayType)
         /\ ringLeds' = After(list, calls, to, "ringLeds", ringLeds)
         /\ stripLeds' = After(list, calls, to, "stripLeds", stripLeds)
         /\ matrixWidth' = After(list, calls, to, "matrixWidth", matrixWidth)
         /\ matrixHeight' = After(list, calls, to, "matrixHeight", matrixHeight)
         /\ ledColors' = After(list, calls, to, "ledColors", ledColors)
         /\ rotation' = After(list, calls, to, "rotation", rotation)
         /\ showLabels' = After(list, calls, to, "showLabels", showLabels)
         /\ hashInitialized' = After(list, calls, to, "hashInitialized", hashInitialized)
         /\ calls' = to
         /\ timer' = IF to = Len(list) THEN "done" ELSE "running"
  /\ commit' = TRUE
  /\ UNCHANGED <<hash, params, batching, besideHash>>

\* the write effect after a render
WriteEffect ==
  /\ commit
  /\ commit' = FALSE
  /\ hash' = IF hashInitialized THEN CurrentHash ELSE hash
  /\ UNCHANGED <<hashInitialized, rotation, showLabels, timer, params, calls, batching,
                 displayType, ringLeds, stripLeds, matrixWidth, matrixHeight,
                 ledColors, besideHash>>

\* the colour picked in these runs
currentColor == <<"#", "F", "F", "8", "0", "0", "0">>

\* handleLedClick(index) on a LED of the display
handleLedClick(index) ==
  /\ timer \in {"set", "done"}
  /\ ~commit
  /\ LET ledCount   == getLedCount(displayType, ringLeds, matrixWidth, matrixHeight,
                                   stripLeds)
         safeColors == sanitizeLedColors(ledColors, ledCount)
     IN  /\ index < ledCount
         /\ ledColors' = [safeColors EXCEPT ![index + 1] = hexToRgb(currentColor)]
  /\ commit' = TRUE
  /\ UNCHANGED <<hash, hashInitialized, rotation, showLabels, timer, params, calls,
                 batching, displayType, ringLeds, stripLeds, matrixWidth, matrixHeight,
                 besideHash>>

\* the LEDs clicked in these runs
MaxClick == 1

NextHash ==
  \/ MountEffects
  \/ LoadCallback
  \/ WriteEffect
  \/ \E index \in 0..MaxClick : handleLedClick(index)

SpecHash == InitHash /\ [][NextHash]_vars

\* the state is the one the setter calls of the load callback leave
Loaded ==
  LET list == LoadCalls(params)
      n    == Len(list)
  IN  /\ displayType = After(list, 0, n, "displayType", displayType)
      /\ ringLeds = After(list, 0, n, "ringLeds", ringLeds)
      /\ stripLeds = After(list, 0, n, "stripLeds", stripLeds)
      /\ matrixWidth = After(list, 0, n, "matrixWidth", matrixWidth)
      /\ matrixHeight = After(list, 0, n, "matrixHeight", matrixHeight)
      /\ ledColors = After(list, 0, n, "ledColors", ledColors)
      /\ rotation = After(list, 0, n, "rotation", rotation)
      /\ showLabels = After(list, 0, n, "showLabels", showLabels)

\* C27: the hash changes only when hashInitialized is set and the deferred
\* callback has made all its setter calls; until then the hash is the one the
\* load effect read; the render in which hashInitialized becomes true has the
\* display type, sizes, colours, rotation and labels of that hash; and once
\* the effects have run the hash is the hash of the state
C27_HashInitOrdering ==
  /\ [][(hash' # hash) => (hashInitialized /\ timer = "done")]_vars
  /\ []((timer # "unset" /\ ~hashInitialized) => hash = params)
  /\ [][(~hashInitialized /\ hashInitialized') => (Loaded' /\ hash' = params)]_vars
  /\ []((hashInitialized /\ ~commit) => hash = CurrentHash)

\* C27 witness: without batching, the hash matrix 2 x 1 with three colours and
\* rotation 90 has been applied and written back with two colours
C27_Witness ==
  /\ ~batching
  /\ timer = "done"
  /\ ~commit
  /\ hashInitialized
  /\ displayType = "matrix"
  /\ matrixWidth = 2
  /\ rotation = 90
  /\ hash # params
  /\ hash = CurrentHash
  /\ Len(hash.colors) = 2
  /\ ledColors = <<<<0, 255, 0>>, <<0, 0, 0>>>>


(***************************************************************************)
(* SpecColors: the handlers of useLedApp that change the configuration or  *)
(* the colour list, once the hash is loaded.  ConfigPanel shows the size   *)
(* fields of the current display type and hands the setters parseInt of    *)
(* what was typed, which the field's min attribute does not bound.  The    *)
(* rotation is modelled for positive sides, so the matrix side typed in    *)
(* these runs is positive.                                                 *)
(***************************************************************************)
\* parseInt of the values typed into the LED-count fields
SizeInputs == {-1, 2}

\* parseInt of the value typed into the matrix fields
MatrixInputs == {1}

setRingLeds(n) ==
  /\ displayType = "ring"
  /\ ringLeds' = n
  /\ UNCHANGED <<displayType, stripLeds, ledColors, selectedFormat, formatConfigs,
                 matrixWidth, matrixHeight>>
  /\ Rerendered
  /\ ModalUntouched
  /\ Committed

setMatrixWidth(n) ==
  /\ displayType = "matrix"
  /\ matrixWidth' = n
  /\ UNCHANGED <<displayType, ringLeds, stripLeds, ledColors, selectedFormat,
                 formatConfigs, matrixHeight>>
  /\ Rerendered
  /\ ModalUntouched
  /\ Committed

setMatrixHeight(n) ==
  /\ displayType = "matrix"
  /\ matrixHeight' = n
  /\ UNCHANGED <<displayType, ringLeds, stripLeds, ledColors, selectedFormat,
                 formatConfigs, matrixWidth>>
  /\ Rerendered
  /\ ModalUntouched
  /\ Committed

\* entries of the history as parseStoredHistory and handleSaveToHistory leave
\* them: a ring and a matrix
StoredEntries ==
  {[displayType |-> "ring", ringLeds |-> 2, matrixWidth |-> 0, matrixHeight |-> 0,
    stripLeds |-> 0, rotation |-> 90, showLabels |-> FALSE,
    ledColors |-> <<<<255, 128, 0>>, <<9, 9, 9>>>>],
   [displayType |-> "matrix", ringLeds |-> 0, matrixWidth |-> 2, matrixHeight |-> 1,
    stripLeds |-> 0, rotation |-> 0, showLabels |-> TRUE,
    ledColors |-> <<<<9, 9, 9>>, <<255, 128, 0>>>>]}

\* loadFromHistory(entry)
loadFromHistory(entry) ==
  /\ ~commit
  /\ displayType' = entry.displayType
  /\ ringLeds' = (IF entry.displayType = "ring" THEN entry.ringLeds ELSE ringLeds)
  /\ matrixWidth' =
       (IF entry.displayType = "matrix" THEN entry.matrixWidth ELSE matrixWidth)
  /\ matrixHeight' =
       (IF entry.displayType = "matrix" THEN entry.matrixHeight ELSE matrixHeight)
  /\ stripLeds' = (IF entry.displayType = "strip" THEN entry.stripLeds ELSE stripLeds)
  /\ rotation' = entry.rotation
  /\ showLabels' = entry.showLabels
  /\ ledColors' =
       sanitizeLedColors(entry.ledColors,
                         getLedCount(entry.displayType, entry.ringLeds,
                                     entry.matrixWidth, entry.matrixHeight,
                                     entry.stripLeds))
  /\ commit' = TRUE
  /\ UNCHANGED <<selectedFormat, formatConfigs, rgb, hex, codecVars, isOpen, loading,
                 historyVars,
                 hash, hashInitialized, timer, params, calls, batching>>
  /\ Rerendered
  /\ ModalUntouched

\* onApply(colors) of the import modal, which is open over a matrix display
\* and hands the matrixWidth * matrixHeight colours of its preview, here of a
\* grey image
onApply ==
  /\ ~commit
  /\ timer # "unset"
  /\ displayType = "matrix"
  /\ matrixWidth * matrixHeight > 0
  /\ ledColors' = [i \in 1..(matrixWidth * matrixHeight) |-> <<9, 9, 9>>]
  /\ commit' = TRUE
  /\ UNCHANGED <<displayType, ringLeds, stripLeds, matrixWidth, matrixHeight,
                 selectedFormat, formatConfigs, rgb, hex, codecVars, isOpen, loading,
                 historyVars,
                 hash, hashInitialized, rotation, showLabels, timer, params, calls,
                 batching>>
  /\ Rerendered
  /\ ModalUntouched

\* a page opened on a 2 x 1 matrix, after the load effect has applied the
\* hash and the write effect has written it back
InitColors ==
  /\ ModalClosed
  /\ displayType = "matrix"
  /\ ringLeds = DEFAULT_RING_LED_COUNT
  /\ stripLeds = DEFAULT_STRIP_LED_COUNT
  /\ matrixWidth = 2
  /\ matrixHeight = 1
  /\ ledColors = sanitizeLedColors(ParsedColors(MatrixHash.colors), 2)
  /\ selectedFormat = "rgb"
  /\ formatConfigs = WledDefaultConfig
  /\ eagerOutputValue = NoBytes
  /\ rgb = <<Num(0, 1), Num(0, 1), Num(0, 1)>>
  /\ hex = <<>>
  /\ CodecAtRest
  /\ OpenAtRest
  /\ HistoryAtRest
  /\ hashInitialized = TRUE
  /\ rotation = 90
  /\ showLabels = FALSE
  /\ timer = "done"
  /\ params = MatrixHash
  /\ calls = Len(LoadCalls(MatrixHash))
  /\ batching = TRUE
  /\ commit = FALSE
  /\ hash = FormatHash(displayType, ringLeds, matrixWidth, matrixHeight, stripLeds,
                       ledColors, rotation, showLabels)

NextColors ==
  \/ WriteEffect
  \/ \E next \in {"ring", "matrix", "strip"} : handleDisplayTypeChange(next)
  \/ \E n \in SizeInputs : setRingLeds(n)
  \/ \E n \in SizeInputs : setStripLeds(n)
  \/ \E n \in MatrixInputs : setMatrixWidth(n)
  \/ \E n \in MatrixInputs : setMatrixHeight(n)
  \/ \E index \in 0..MaxClick : handleLedClick(index)
  \/ \E entry \in StoredEntries : loadFromHistory(entry)
  \/ onApply
  \/ \E angle \in {90, 180, 270} : rotateMatrixPixels(angle)

SpecColors == InitColors /\ [][NextColors]_vars

\* getLedCount of the current configuration
ledCount == getLedCount(displayType, ringLeds, matrixWidth, matrixHeight, stripLeds)

\* the list the formatters, the bitmap generator and the hash are handed
safeColors == sanitizeLedColors(ledColors, ledCount)

\* a triple of integer channels in 0..255
IsRgb(color) == Len(color) = 3 /\ \A c \in 1..3 : color[c] \in 0..255

\* C28: the list handed on has ledCount entries, each a triple of channels in
\* 0..255; an entry of ledColors that is such a triple is kept, a missing or
\* malformed one is black
C28_ColorListLength ==
  /\ Len(safeColors) = ledCount
  /\ \A i \in 1..Len(safeColors) :
       /\ IsRgb(safeColors[i])
       /\ (i <= Len(ledColors) /\ IsRgb(ledColors[i])) => safeColors[i] = ledColors[i]
       /\ (i > Len(ledColors) \/ Len(ledColors[i]) # 3) => safeColors[i] = <<0, 0, 0>>


(***************************************************************************)
(* The box footprints of a resample run, checked under Spec in the states  *)
(* of the main loop of a box resample.                                     *)
(***************************************************************************)
\* the source pixels of the footprint of cell (dx, dy)
Footprint(sw, sh, dw, dh, dx, dy) ==
  LET taps == boxTaps(sw, sh, dw, dh, dx, dy)
  IN  {<<taps[k].x, taps[k].y>> : k \in 1..Len(taps)}

\* a box resample is in its main loop
BoxLoop ==
  /\ pc = "loop"
  /\ scalingAlgorithm = "box"
  /\ LoopRuns(matrixWidth, matrixHeight)

\* the source is an integer multiple of the target on both axes
IntegerScale == srcData.w % matrixWidth = 0 /\ srcData.h % matrixHeight = 0

\* C29: in a box resample no footprint is empty and none has an index outside
\* the source; at integer scale every footprint has scaleX * scaleY pixels,
\* every source pixel is in the footprint of exactly one cell, and the sample
\* of a cell is the sum of its footprint over scaleX * scaleY
C29_BoxPartition ==
  BoxLoop =>
    LET sw == srcData.w
        sh == srcData.h
        dw == matrixWidth
        dh == matrixHeight
        cells == (0..(dw - 1)) \X (0..(dh - 1))
    IN  /\ \A cell \in cells :
             /\ Footprint(sw, sh, dw, dh, cell[1], cell[2]) # {}
             /\ Footprint(sw, sh, dw, dh, cell[1], cell[2])
                  \subseteq (0..(sw - 1)) \X (0..(sh - 1))
        /\ IntegerScale =>
             /\ \A cell \in cells :
                  /\ Len(boxTaps(sw, sh, dw, dh, cell[1], cell[2]))
                       = (sw \div dw) * (sh \div dh)
                  /\ Cardinality(Footprint(sw, sh, dw, dh, cell[1], cell[2]))
                       = (sw \div dw) * (sh \div dh)
             /\ \A pixel \in (0..(sw - 1)) \X (0..(sh - 1)) :
                  Cardinality({cell \in cells :
                                 pixel \in Footprint(sw, sh, dw, dh, cell[1], cell[2])}) = 1
             /\ pos > 0 =>
                  /\ ~sample.nan
                  /\ sample.d = (sw \div dw) * (sh \div dh)
                  /\ \A k \in 1..Len(reads) : reads[k].w = 1

\* C29 witness: a 4 x 4 source boxed down to 2 x 1, the second cell done: its
\* footprint is the right half of the source, eight pixels
C29_Witness ==
  /\ BoxLoop
  /\ srcData.w = 4
  /\ matrixWidth = 2
  /\ matrixHeight = 1
  /\ pos = 2
  /\ Len(reads) = 8
  /\ sample.d = 8
  /\ {<<reads[k].x, reads[k].y>> : k \in 1..Len(reads)} = (2..3) \X (0..3)

(***************************************************************************)
(* SpecCodec: the colours parameter of useHashSync. A list of colours is   *)
(* written by the legacy writer (rgbToHex of each colour, joined by ',')   *)
(* or by encodeColorsBase64, and the value is read back by                 *)
(* decodeColorsFromParam. A binary string is the sequence of its character *)
(* codes.                                                                  *)
(***************************************************************************)
MaxColors == 2

\* the colours written: channels at both ends of 0..255 and between
CodecPalette ==
  {<<255, 0, 0>>, <<0, 0, 0>>, <<255, 255, 255>>, <<18, 52, 86>>, <<0, 128, 255>>}

CodecInputs ==
  UNION {[1..n -> CodecPalette] : n \in 1..MaxColors}

\* the base64 alphabet of btoa and atob
Base64Alphabet ==
  <<"A", "B", "C", "D", "E", "F", "G", "H", "I", "J", "K", "L", "M", "N", "O", "P",
    "Q", "R", "S", "T", "U", "V", "W", "X", "Y", "Z", "a", "b", "c", "d", "e", "f",
    "g", "h", "i", "j", "k", "l", "m", "n", "o", "p", "q", "r", "s", "t", "u", "v",
    "w", "x", "y", "z", "0", "1", "2", "3", "4", "5", "6", "7", "8", "9", "+", "/">>

IsBase64(ch) == \E i \in 1..64 : Base64Alphabet[i] = ch

Base64Value(ch) == (CHOOSE i \in 1..64 : Base64Alphabet[i] = ch) - 1

\* btoa: every six bits of the bytes give a character, a last group short of
\* three bytes is filled with zero bits and padded with '='
btoa(binary) ==
  LET n == Len(binary)
      sextets == (8 * n + 5) \div 6
      byteAt(q) == IF q < n THEN binary[q + 1] ELSE 0
      sextet(i) ==
        LET q == (6 * i) \div 8
            r == (6 * i) % 8
        IN  ((byteAt(q) * 256 + byteAt(q + 1)) \div 2 ^ (10 - r)) % 64
  IN  [i \in 1..(4 * ((n + 2) \div 3)) |->
         IF i <= sextets THEN Base64Alphabet[sextet(i - 1) + 1] ELSE "="]

\* atob: up to two '=' are dropped from the end of a value whose length is a
\* multiple of four; a length of 4k + 1 or a character outside the alphabet
\* throws (NoBytes); left-over bits short of a byte are dropped
atob(value) ==
  LET len == Len(value)
      pad == IF len % 4 = 0 /\ len > 0 /\ value[len] = "="
             THEN (IF value[len - 1] = "=" THEN 2 ELSE 1)
             ELSE 0
      data == SubSeq(value, 1, len - pad)
      n == Len(data)
      byte(j) ==
        LET q == (8 * j) \div 6
            r == (8 * j) % 6
        IN  ((Base64Value(data[q + 1]) * 64 + Base64Value(data[q + 2]))
               \div 2 ^ (4 - r)) % 256
  IN  IF n % 4 = 1 \/ \E i \in 1..n : ~IsBase64(data[i])
      THEN NoBytes
      ELSE [j \in 1..((6 * n) \div 8) |-> byte(j - 1)]

\* encodeColorsBase64: three clamped bytes a colour, then btoa
encodeColorsBase64(colors) ==
  btoa([k \in 1..(3 * Len(colors)) |->
          MathMax(0, MathMin(255, colors[((k - 1) \div 3) + 1][((k - 1) % 3) + 1]))])

RECURSIVE join(_, _)
join(list, separator) ==
  IF Len(list) = 0 THEN <<>>
  ELSE IF Len(list) = 1 THEN list[1]
  ELSE list[1] \o <<separator>> \o join(Tail(list), separator)

\* the legacy writer: colorsForHash.map(rgbToHex).join(',')
LegacyColors(colors) ==
  join([i \in 1..Len(colors) |->
          rgbToHex(<<Num(colors[i][1], 1), Num(colors[i][2], 1), Num(colors[i][3], 1)>>)],
       ",")

includes(str, ch) == \E i \in 1..Len(str) : str[i] = ch

RECURSIVE split(_, _)
split(str, separator) ==
  IF ~includes(str, separator) THEN <<str>>
  ELSE LET at == CHOOSE i \in 1..Len(str) :
                   /\ str[i] = separator
                   /\ \A k \in 1..(i - 1) : str[k] # separator
       IN  <<SubSeq(str, 1, at - 1)>> \o split(SubSeq(str, at + 1, Len(str)), separator)

\* decodeColorsFromParam: a value with '#' or ',' is a list of hex colours,
\* any other value is base64
decodeColorsFromParam(value) ==
  IF Len(value) = 0 THEN <<>>
  ELSE IF includes(value, "#") \/ includes(value, ",")
  THEN LET parts == split(value, ",")
       IN  [i \in 1..Len(parts) |-> hexToRgb(parts[i])]
  ELSE LET binary == atob(value)
       IN  IF binary = NoBytes THEN <<>>
           ELSE [c \in 1..(Len(binary) \div 3) |->
                   <<binary[3 * c - 2], binary[3 * c - 1], binary[3 * c]>>]

InitCodec ==
  /\ ModalClosed
  /\ displayType = "ring"
  /\ ringLeds = DEFAULT_RING_LED_COUNT
  /\ stripLeds = DEFAULT_STRIP_LED_COUNT
  /\ matrixWidth = DEFAULT_MATRIX_WIDTH
  /\ matrixHeight = DEFAULT_MATRIX_HEIGHT
  /\ ledColors = createBlankColors(DEFAULT_RING_LED_COUNT)
  /\ selectedFormat = "rgb"
  /\ formatConfigs = WledDefaultConfig
  /\ eagerOutputValue = NoBytes
  /\ HashAtRest
  /\ OpenAtRest
  /\ HistoryAtRest
  /\ rgb = <<Num(0, 1), Num(0, 1), Num(0, 1)>>
  /\ hex = <<>>
  /\ written \in CodecInputs
  /\ colorsValue = <<>>
  /\ parsedColors = NoPixels

besideCodec ==
  <<modalVars, engineVars, refVars, ledVars, rgb, hex, isOpen, loading, historyVars,
    hashVars>>

\* the legacy hash writer sets the colors parameter
WriteLegacy ==
  /\ colorsValue = <<>>
  /\ colorsValue' = LegacyColors(written)
  /\ UNCHANGED <<written, parsedColors, besideCodec>>

\* the hash writer sets the colors parameter
WriteBase64 ==
  /\ colorsValue = <<>>
  /\ colorsValue' = encodeColorsBase64(written)
  /\ UNCHANGED <<written, parsedColors, besideCodec>>

\* the hash reader decodes the colors parameter
ReadColors ==
  /\ colorsValue # <<>>
  /\ parsedColors = NoPixels
  /\ parsedColors' = decodeColorsFromParam(colorsValue)
  /\ UNCHANGED <<written, colorsValue, besideCodec>>

NextCodec == WriteLegacy \/ WriteBase64 \/ ReadColors

SpecCodec == InitCodec /\ [][NextCodec]_vars

\* C30: whichever of the two writers wrote the colors parameter,
\* decodeColorsFromParam returns the colours that were written
C30_BothEncodingsDecode ==
  parsedColors # NoPixels => parsedColors = written

====
